---- MODULE Spec2Model ----
(***************************************************************************)
(* Verification model of investment-assistant.  The retrieval layer         *)
(* (src/core/retrieval.py): SearchManager.search with its two cache tiers, *)
(* is specification Spec.  The cache file, the JSON extractors, the deep   *)
(* merge, the environment-check cycle, a repeated search, the storage of   *)
(* research records, requests that overlap on it and the direct edits of   *)
(* playbooks each have a specification of their own further down, which    *)
(* holds the other components still.                                       *)
(*                                                                         *)
(* One search call is a process whose position is pc; the only points at   *)
(* which it blocks are the provider.search calls, so the call is split     *)
(* there and nowhere else.  The clock only moves while a provider call is  *)
(* in flight or while no search is running.                                *)
(***************************************************************************)
EXTENDS Integers, Sequences, FiniteSets, TLC

(***************************************************************************)
(* Bounds of the model.                                                    *)
(***************************************************************************)
MaxTime == 4        \* the clock runs over 1..MaxTime
MaxDelay == 1       \* a provider call takes 0..MaxDelay ticks
MaxN == 2           \* max_results ranges over 0..MaxN
MaxResp == 2        \* a provider answers with at most MaxResp results
MaxCalls == 2       \* number of search calls in one behaviour
MaxInvocations == 3 \* number of provider.search calls in one behaviour

(***************************************************************************)
(* Program constants, scaled to the clock of the model.                    *)
(***************************************************************************)
cache_ttl_seconds == 2
hard_timeout_seconds == 1

(***************************************************************************)
(* Values.                                                                 *)
(***************************************************************************)
SP == "sp"                              \* a whitespace character

\* urls a provider may hand back.  TavilyProvider (lines 72-74 with
\* tavily_search.py:77) and OpenClawWebSearchProvider (lines 200-204) strip
\* the url and drop a result without one; a provider that only keeps the
\* SearchProvider contract may return any string
CleanUrls == {<<"a">>, <<"b">>}
RawUrls == {<<>>, <<"a", SP>>, <<"b">>}
UrlPool(p) == IF p \in {"tavily", "openclaw_web_search"} THEN CleanUrls ELSE RawUrls

ProviderNames == {"tavily", "openclaw_web_search", "custom"}

\* the provider lists a SearchManager is constructed with
ProviderConfigs ==
    { <<>>,
      <<"openclaw_web_search">>,
      <<"tavily", "openclaw_web_search">>,
      <<"custom", "tavily", "openclaw_web_search">> }

\* SearchResult (title, url, provider); snippet, published and score play no
\* part in search and are left out
SearchResult(t, u, p) == [title |-> t, url |-> u, provider |-> p]

Fields == {"title", "url", "provider"}

SeqsUpTo(S, n) == UNION { [1..k -> S] : k \in 0..n }

\* what provider p may return: any list of at most MaxResp results
Responses(p) ==
    { [i \in 1..Len(us) |-> SearchResult(i, us[i], p)] : us \in SeqsUpTo(UrlPool(p), MaxResp) }

(***************************************************************************)
(* str.strip(): drop leading and trailing whitespace.                      *)
(***************************************************************************)
RECURSIVE LStrip(_)
LStrip(u) == IF u # <<>> /\ Head(u) = SP THEN LStrip(Tail(u)) ELSE u

RECURSIVE RStrip(_)
RStrip(u) ==
    IF u # <<>> /\ u[Len(u)] = SP THEN RStrip(SubSeq(u, 1, Len(u) - 1)) ELSE u

Strip(u) == RStrip(LStrip(u))

(***************************************************************************)
(* The cache: one file per key.                                            *)
(***************************************************************************)
\* sha256 over the canonical JSON of the request; injective on the model
_cache_key(query, provider, n, topic, depth) == <<query, provider, n, topic, depth>>

Keys == { _cache_key("q", p, n, "news", "basic") :
            p \in ProviderNames \cup {"union"}, n \in 0..MaxN }

\* present: p.exists(); loads: json.loads accepts the text of the file
NoFile == [present |-> FALSE, loads |-> FALSE, ts |-> 0, results |-> <<>>]

\* what _read_cache hands to its caller; exc: an exception leaves it instead
None == [some |-> FALSE, exc |-> FALSE, val |-> <<>>]
Some(v) == [some |-> TRUE, exc |-> FALSE, val |-> v]
Raises == [some |-> FALSE, exc |-> TRUE, val |-> <<>>]

\* r.__dict__ as written to the file, and SearchResult(**it) on the way back
ToDict(r) == [k \in Fields |-> r[k]]
FitsSearchResult(it) == DOMAIN it = Fields
FromDict(it) == SearchResult(it["title"], it["url"], it["provider"])

\* the comparison of line 248 the wrong way round
_read_cache_TtlFlipped(c, key, t) ==
    LET obj == c[key] IN
    IF ~obj.present THEN None
    ELSE IF ~obj.loads THEN None
    ELSE IF obj.ts # 0 /\ (t - obj.ts) < cache_ttl_seconds THEN None
    ELSE Some([i \in 1..Len(obj.results) |-> FromDict(obj.results[i])])

\* lines 247-249 left out
_read_cache_NoTtl(c, key, t) ==
    LET obj == c[key] IN
    IF ~obj.present THEN None
    ELSE IF ~obj.loads THEN None
    ELSE Some([i \in 1..Len(obj.results) |-> FromDict(obj.results[i])])

\* lines 244-256 without the try/except around them
_read_cache_NoExcept(c, key, t) ==
    LET obj == c[key] IN
    IF ~obj.present THEN None
    ELSE IF ~obj.loads THEN Raises
    ELSE IF obj.ts # 0 /\ (t - obj.ts) > cache_ttl_seconds THEN None
    ELSE IF \E i \in 1..Len(obj.results) : ~FitsSearchResult(obj.results[i]) THEN Raises
    ELSE Some([i \in 1..Len(obj.results) |-> FromDict(obj.results[i])])

_read_cache(c, key, t) ==
    LET obj == c[key] IN
    IF ~obj.present THEN None
    ELSE IF ~obj.loads THEN None
    ELSE IF obj.ts # 0 /\ (t - obj.ts) > cache_ttl_seconds THEN None
    ELSE IF \E i \in 1..Len(obj.results) : ~FitsSearchResult(obj.results[i]) THEN None
    ELSE Some([i \in 1..Len(obj.results) |-> FromDict(obj.results[i])])

\* an empty list is not written
_write_cache_SkipEmpty(c, key, results, t) ==
    IF results = <<>> THEN c
    ELSE [c EXCEPT ![key] = [present |-> TRUE, loads |-> TRUE, ts |-> t,
                             results |-> [i \in 1..Len(results) |-> ToDict(results[i])]]]

_write_cache(c, key, results, t) ==
    [c EXCEPT ![key] = [present |-> TRUE, loads |-> TRUE, ts |-> t,
                        results |-> [i \in 1..Len(results) |-> ToDict(results[i])]]]

(***************************************************************************)
(* Lines 307-314: fold one provider's results into merged / seen_urls.     *)
(***************************************************************************)
\* line 309 without the seen_urls test
RECURSIVE MergeResults_NoSeen(_, _, _, _)
MergeResults_NoSeen(m, s, res, n) ==
    IF res = <<>> THEN [merged |-> m, seen_urls |-> s]
    ELSE LET r == Head(res)
             u == Strip(r.url)
         IN IF u = <<>>
            THEN MergeResults_NoSeen(m, s, Tail(res), n)
            ELSE IF Len(m) + 1 >= n
                 THEN [merged |-> Append(m, r), seen_urls |-> s \cup {u}]
                 ELSE MergeResults_NoSeen(Append(m, r), s \cup {u}, Tail(res), n)

RECURSIVE MergeResults(_, _, _, _)
MergeResults(m, s, res, n) ==
    IF res = <<>> THEN [merged |-> m, seen_urls |-> s]
    ELSE LET r == Head(res)
             u == Strip(r.url)
         IN IF u = <<>> \/ u \in s
            THEN MergeResults(m, s, Tail(res), n)
            ELSE IF Len(m) + 1 >= n
                 THEN [merged |-> Append(m, r), seen_urls |-> s \cup {u}]
                 ELSE MergeResults(Append(m, r), s \cup {u}, Tail(res), n)

(***************************************************************************)
(* State.                                                                  *)
(***************************************************************************)
VARIABLES
    now,          \* time.time()
    cache,        \* SEARCH_CACHE_DIR: key -> file
    pc,           \* position of the search call
    providers,    \* self.providers of the manager running the call
    max_results,  \* argument of the call
    start,        \* local start
    idx,          \* position of the provider loop (1-based)
    merged,       \* local merged
    seen_urls,    \* local seen_urls
    returned,     \* what the call returned
    log,          \* per provider: what the call did with it, and what it got
    written,      \* keys written by the call
    unionAtStart, \* the union file as the call found it
    hit,          \* the call was answered from the union file
    nCalls,       \* number of calls started
    nInvocations  \* number of provider.search calls started

searchVars == <<now, cache, pc, providers, max_results, start, idx, merged, seen_urls,
                returned, log, written, unionAtStart, hit, nCalls, nInvocations>>

\* two search calls of two threads on one cache file, at the grain of the
\* file operations of Path.read_text and Path.write_text
VARIABLES
    file,         \* the union file: does it exist, and its text
    file0,        \* the file as the two calls found it
    cpc,          \* position of each call
    payload,      \* text each call writes
    observed,     \* the file as each call read it
    got,          \* what _read_cache returned to each call
    order         \* the calls in the order in which their writes ended

fileVars == <<file, file0, cpc, payload, observed, got, order>>

\* one generated text and what each extractor makes of it
VARIABLES
    response,       \* the text the model call returned
    interviewOut,   \* InterviewManager._extract_json(response)
    assistantOut,   \* InvestmentAssistant._extract_json(response)
    assessOut,      \* EnvironmentCollector.assess_impact on response
    conclusionOut   \* ResearchEngine._extract_conclusion(response)

extractVars == <<response, interviewOut, assistantOut, assessOut, conclusionOut>>

\* one call of InvestmentAssistant._deep_merge
VARIABLES
    base,         \* argument base
    patch,        \* argument patch
    out           \* what the call returned

mergeVars == <<base, patch, out>>

\* one research cycle, started from the command line or from the browser
VARIABLES
    entry,          \* "cli" or "web", "none" before the cycle starts
    stage,          \* how far the cycle has come
    playbook,       \* the subject has a playbook
    auto_collected, \* the news as handed to the panel and to assess_impact
    assessText,     \* the text of the assessment call
    assessment,     \* what assess_impact returned
    report,         \* the text of the research call
    history         \* the records of history.json, newest first

cycleVars == <<entry, stage, playbook, auto_collected, assessText, assessment, report,
               history>>

\* two calls of one SearchManager, the second seen against the first
VARIABLES
    prevCall      \* the call before this one: its arguments, the providers
                  \* that returned results and those that raised

retryVars == <<prevCall>>

\* the directory of one subject under ~/.investment-assistant/stocks and
\* the calls of Storage made on it, one after the other
VARIABLES
    clock,        \* datetime.now(), in ticks
    disk,         \* the directory: does it exist, playbook.json, history.json
    appended,     \* the records as add_research_record wrote them, newest first
    last          \* the call made last: its arguments, what it returned and
                  \* the directory as it found it

storageVars == <<clock, disk, appended, last>>

\* requests that save a record for the same subject at the same time, on the
\* directory and the clock above
VARIABLES
    rpc,          \* position of each request
    rlocal,       \* local history of add_research_record in each request
    torn          \* history.json does not parse: it is empty, or holds the
                  \* end of a longer text behind a shorter one

raceVars == <<rpc, rlocal, torn>>

\* the playbooks that Storage keeps and the direct edits of the command line
VARIABLES
    books,        \* playbook.json of the portfolio and of every stock id
    dirs,         \* the stock ids that have a directory
    etime,        \* datetime.now(), in ticks
    edit          \* the handler that ran last: what it was given, what it
                  \* found stored and how it ended

editVars == <<books, dirs, etime, edit>>

laterVars == <<retryVars, storageVars, raceVars, editVars>>

otherVars == <<fileVars, extractVars, mergeVars, cycleVars, laterVars>>

vars == <<searchVars, otherVars>>

notFileVars == <<searchVars, extractVars, mergeVars, cycleVars, laterVars>>
notExtractVars == <<searchVars, fileVars, mergeVars, cycleVars, laterVars>>
notMergeVars == <<searchVars, fileVars, extractVars, cycleVars, laterVars>>
notCycleVars == <<searchVars, fileVars, extractVars, mergeVars, laterVars>>
notRetryVars == <<fileVars, extractVars, mergeVars, cycleVars, storageVars, raceVars, editVars>>
notStorageVars == <<searchVars, fileVars, extractVars, mergeVars, cycleVars, retryVars, raceVars,
                   editVars>>
notRaceVars == <<searchVars, fileVars, extractVars, mergeVars, cycleVars, retryVars, editVars>>
notEditVars == <<searchVars, fileVars, extractVars, mergeVars, cycleVars, retryVars, storageVars,
                raceVars>>

\* per provider: avail is what is_available() answered ("unasked" when it
\* was not called), st what the call then did, res the results it took, at
\* the time at which the loop came to the provider (the time of the test of
\* line 289, of is_available() and of the read of the provider's cache file)
NoLog == [p \in ProviderNames |-> [avail |-> "unasked", st |-> "none", res |-> <<>>, at |-> 0]]

UnionKey == _cache_key("q", "union", max_results, "news", "basic")
ProviderKey(p) == _cache_key("q", p, max_results, "news", "basic")

SearchInit ==
    /\ now = 1
    /\ cache = [k \in Keys |-> NoFile]
    /\ pc = "idle"
    /\ providers = <<>>
    /\ max_results = 0
    /\ start = 1
    /\ idx = 1
    /\ merged = <<>>
    /\ seen_urls = {}
    /\ returned = <<>>
    /\ log = NoLog
    /\ written = {}
    /\ unionAtStart = NoFile
    /\ hit = FALSE
    /\ nCalls = 0
    /\ nInvocations = 0

Threads == {1, 2}

NoText == [exists |-> FALSE, text |-> <<>>]

\* no thread is running
FileQuiet ==
    /\ file = NoText
    /\ file0 = NoText
    /\ cpc = [p \in Threads |-> "off"]
    /\ payload = [p \in Threads |-> <<>>]
    /\ observed = [p \in Threads |-> NoText]
    /\ got = [p \in Threads |-> None]
    /\ order = <<>>

\* an extractor that has not been called
NotRun == [run |-> FALSE]

ExtractQuiet ==
    /\ response = <<>>
    /\ interviewOut = NotRun
    /\ assistantOut = NotRun
    /\ assessOut = NotRun
    /\ conclusionOut = NotRun

\* JSON values as the patcher sees them: a dict holds a value or nothing
\* under every key
Absent == [kind |-> "absent"]
Scalar(n) == [kind |-> "scalar", n |-> n]
List(l) == [kind |-> "list", items |-> l]
Dict(f) == [kind |-> "dict", at |-> f]
Str(s) == [kind |-> "str", s |-> s]

DictKeys == {"a", "b"}
EmptyDict == Dict([k \in DictKeys |-> Absent])

MergeQuiet ==
    /\ base = EmptyDict
    /\ patch = EmptyDict
    /\ out = Absent

\* a list of news items or the dict collect_news returns, with n items
NewsList(n) == [kind |-> "list", n |-> n]
NewsDict(n) == [kind |-> "dict", n |-> n]
\* collect_news was left by an exception
NewsRaised == [kind |-> "raised", n |-> 0]

CycleQuiet ==
    /\ entry = "none"
    /\ stage = "idle"
    /\ playbook = FALSE
    /\ auto_collected = NewsList(0)
    /\ assessText = <<>>
    /\ assessment = NotRun
    /\ report = <<>>
    /\ history = <<>>

\* no call has been made yet
NoCall == [made |-> FALSE, providers |-> <<>>, max_results |-> 0, answered |-> {}, failed |-> {}]

RetryQuiet == prevCall = NoCall

\* a directory that does not exist
NoDir == [exists |-> FALSE, playbook |-> FALSE,
          history |-> [present |-> FALSE, records |-> <<>>]]

NoCallYet == [op |-> "none", arg |-> 0, ret |-> "None", out |-> <<>>, before |-> NoDir]

StorageQuiet ==
    /\ clock = 0
    /\ disk = NoDir
    /\ appended = <<>>
    /\ last = NoCallYet

\* the requests that end in save_research_record (web/app.py lines 567-596
\* and 803-832), each sent by one of MaxClients browser windows
MaxClients == 2
Requests == {"api_execute_research", "api_batch_research_stock"} \X (1..MaxClients)

RaceQuiet ==
    /\ rpc = [p \in Requests |-> "idle"]
    /\ rlocal = [p \in Requests |-> <<>>]
    /\ torn = FALSE

\* the names of stocks as the user types them, character by character
StockNames == {<<"A">>, <<"a">>, <<"A", " ", "B">>}

\* str.lower() of one character
lower(c) == CASE c = "A" -> "a" [] c = "B" -> "b" [] OTHER -> c

\* stock_name.lower().replace(" ", "_"), assistant.py lines 286, 313 and 477,
\* storage.py line 77
stock_id_of(name) ==
    [i \in 1..Len(name) |-> IF lower(name[i]) = " " THEN "_" ELSE lower(name[i])]

StockIds == { stock_id_of(n) : n \in StockNames }

NoBooks == [portfolio |-> Absent, stocks |-> [i \in StockIds |-> Absent]]
NoEdit == [op |-> "none", name |-> <<>>, raw |-> <<>>, before |-> NoBooks, outcome |-> "none"]

EditQuiet ==
    /\ books = NoBooks
    /\ dirs = {}
    /\ etime = 0
    /\ edit = NoEdit

LaterQuiet ==
    /\ RetryQuiet
    /\ StorageQuiet
    /\ RaceQuiet
    /\ EditQuiet

Init ==
    /\ SearchInit
    /\ FileQuiet
    /\ ExtractQuiet
    /\ MergeQuiet
    /\ CycleQuiet
    /\ LaterQuiet

(***************************************************************************)
(* SearchManager.search, lines 278-283: a call starts, reads the union     *)
(* file and returns it when it is fresh.                                   *)
(***************************************************************************)
search_starts(ps, n) ==
    /\ pc \in {"idle", "done"}
    /\ nCalls < MaxCalls
    /\ nCalls' = nCalls + 1
    /\ providers' = ps
    /\ max_results' = n
    /\ start' = now
    /\ log' = NoLog
    /\ written' = {}
    /\ LET union_key == _cache_key("q", "union", n, "news", "basic")
           cached_union == _read_cache(cache, union_key, now)
       IN /\ unionAtStart' = cache[union_key]
          /\ IF cached_union.some
             THEN /\ returned' = cached_union.val
                  /\ hit' = TRUE
                  /\ pc' = "done"
             ELSE /\ returned' = <<>>
                  /\ hit' = FALSE
                  /\ pc' = "loop"
    /\ idx' = 1
    /\ merged' = <<>>
    /\ seen_urls' = {}
    /\ UNCHANGED <<now, cache, nInvocations>>

SearchStart(ps, n) ==
    /\ search_starts(ps, n)
    /\ UNCHANGED otherVars

\* the loop goes on whatever time has passed
LoopContinues_NoBudget ==
    /\ pc = "loop"
    /\ idx <= Len(providers)

\* lines 288-290: the loop goes on to the next provider
LoopContinues ==
    /\ pc = "loop"
    /\ idx <= Len(providers)
    /\ ~((now - start) > hard_timeout_seconds)

\* lines 307-316 after res is known
AfterMerge(res) ==
    LET mr == MergeResults(merged, seen_urls, res, max_results) IN
    /\ merged' = mr.merged
    /\ seen_urls' = mr.seen_urls
    /\ IF Len(mr.merged) >= max_results
       THEN pc' = "break" /\ idx' = idx
       ELSE pc' = "loop" /\ idx' = idx + 1

\* an unavailable provider is searched all the same
SkipsProvider_Never(avail) == FALSE

\* line 291
SkipsProvider(avail) == ~avail

(***************************************************************************)
(* Lines 291-298: is_available() and the provider's own cache file.        *)
(***************************************************************************)
ConsultProvider(avail) ==
    /\ LoopContinues
    /\ LET p == providers[idx]
           cached == _read_cache(cache, ProviderKey(p), now)
       IN IF SkipsProvider(avail)
          THEN /\ log' = [log EXCEPT ![p] = [avail |-> "no", st |-> "skipped", res |-> <<>>, at |-> now]]
               /\ idx' = idx + 1
               /\ UNCHANGED <<pc, merged, seen_urls, nInvocations>>
          ELSE IF cached.some
          THEN /\ log' = [log EXCEPT ![p] = [avail |-> IF avail THEN "yes" ELSE "no",
                                         st |-> "cached", res |-> cached.val, at |-> now]]
               /\ AfterMerge(cached.val)
               /\ UNCHANGED nInvocations
          ELSE /\ nInvocations < MaxInvocations
               /\ nInvocations' = nInvocations + 1
               /\ log' = [log EXCEPT ![p] = [avail |-> IF avail THEN "yes" ELSE "no",
                                         st |-> "calling", res |-> <<>>, at |-> now]]
               /\ pc' = "calling"
               /\ UNCHANGED <<idx, merged, seen_urls>>
    /\ UNCHANGED <<now, cache, providers, max_results, start, returned, written,
                   unionAtStart, hit, nCalls>>
    /\ UNCHANGED otherVars

\* a response is cached only when it has more than one result
CachesResponse_Several(res) == Len(res) > 1

\* line 302
CachesResponse(res) == res # <<>>

(***************************************************************************)
(* Lines 300-303: provider.search returns res after dt ticks.              *)
(***************************************************************************)
ProviderReturns(res, dt) ==
    /\ pc = "calling"
    /\ now + dt <= MaxTime
    /\ now' = now + dt
    /\ LET p == providers[idx] IN
       /\ log' = [log EXCEPT ![p] = [log[p] EXCEPT !.st = "returned", !.res = res]]
       /\ IF CachesResponse(res)
          THEN /\ cache' = _write_cache(cache, ProviderKey(p), res, now')
               /\ written' = written \cup {ProviderKey(p)}
          ELSE UNCHANGED <<cache, written>>
    /\ AfterMerge(res)
    /\ UNCHANGED <<providers, max_results, start, returned, unionAtStart, hit, nCalls, nInvocations>>
    /\ UNCHANGED otherVars

\* break instead of continue
OnProviderException_Break ==
    /\ pc' = "break"
    /\ idx' = idx

\* what the except clause of lines 304-305 does
OnProviderException ==
    /\ pc' = "loop"
    /\ idx' = idx + 1

(***************************************************************************)
(* Lines 300-305: provider.search raises after dt ticks.                   *)
(***************************************************************************)
ProviderRaises(dt) ==
    /\ pc = "calling"
    /\ now + dt <= MaxTime
    /\ now' = now + dt
    /\ log' = [log EXCEPT ![providers[idx]] = [log[providers[idx]] EXCEPT !.st = "raised"]]
    /\ OnProviderException
    /\ UNCHANGED <<cache, providers, max_results, start, merged, seen_urls, returned,
                   written, unionAtStart, hit, nCalls, nInvocations>>
    /\ UNCHANGED otherVars

(***************************************************************************)
(* Line 301 with a provider that never answers: the call stays there.      *)
(***************************************************************************)
ProviderHangs ==
    /\ pc = "calling"
    /\ pc' = "hung"
    /\ UNCHANGED <<now, cache, providers, max_results, start, idx, merged, seen_urls,
                   returned, log, written, unionAtStart, hit, nCalls, nInvocations>>
    /\ UNCHANGED otherVars

(***************************************************************************)
(* Lines 318-319: the loop is over; write the union file and return.       *)
(***************************************************************************)
SearchReturns ==
    /\ \/ pc = "break"
       \/ pc = "loop" /\ ~LoopContinues
    /\ cache' = _write_cache(cache, UnionKey, merged, now)
    /\ written' = written \cup {UnionKey}
    /\ returned' = merged
    /\ pc' = "done"
    /\ UNCHANGED <<now, providers, max_results, start, idx, merged, seen_urls, log,
                   unionAtStart, hit, nCalls, nInvocations>>
    /\ UNCHANGED otherVars

\* time passes between two calls
Tick ==
    /\ pc \in {"done", "idle"}
    /\ nCalls \in 1..(MaxCalls - 1)
    /\ now < MaxTime
    /\ now' = now + 1
    /\ pc' = "idle"
    /\ UNCHANGED <<cache, providers, max_results, start, idx, merged, seen_urls,
                   returned, log, written, unionAtStart, hit, nCalls, nInvocations>>
    /\ UNCHANGED otherVars

Next ==
    \/ \E ps \in ProviderConfigs, n \in 0..MaxN : SearchStart(ps, n)
    \/ \E avail \in BOOLEAN : ConsultProvider(avail)
    \/ pc = "calling" /\ \E res \in Responses(providers[idx]), dt \in 0..MaxDelay :
            ProviderReturns(res, dt)
    \/ \E dt \in 0..MaxDelay : ProviderRaises(dt)
    \/ ProviderHangs
    \/ SearchReturns
    \/ Tick

Spec == Init /\ [][Next]_vars

\* the scheduler keeps a running call going; a provider that hangs does not
\* answer, so nothing is assumed of it
FairSpec ==
    /\ Spec
    /\ WF_vars(\E avail \in BOOLEAN : ConsultProvider(avail))
    /\ WF_vars(SearchReturns)
    /\ WF_vars(ProviderHangs
               \/ (\E dt \in 0..MaxDelay : ProviderRaises(dt))
               \/ (pc = "calling" /\ \E res \in Responses(providers[idx]), dt \in 0..MaxDelay :
                       ProviderReturns(res, dt)))

TypeOK ==
    /\ now \in 1..MaxTime
    /\ pc \in {"idle", "loop", "calling", "break", "done", "hung"}
    /\ providers \in ProviderConfigs
    /\ max_results \in 0..MaxN
    /\ hit \in BOOLEAN
    /\ nCalls \in 0..MaxCalls
    /\ nInvocations \in 0..MaxInvocations

(***************************************************************************)
(* Vocabulary of the properties.                                           *)
(***************************************************************************)
\* the call has returned after going through the provider loop
MissDone == pc = "done" /\ ~hit

Asked(p) == log[p].avail # "unasked"
Searched(p) == log[p].st \in {"calling", "returned", "raised"}

\* the result lists the call took, in provider order
RECURSIVE GotFrom(_)
GotFrom(i) ==
    IF i > Len(providers) THEN <<>>
    ELSE (IF log[providers[i]].st \in {"cached", "returned"}
          THEN log[providers[i]].res ELSE <<>>) \o GotFrom(i + 1)

Got == GotFrom(1)

DistinctUrls(l) ==
    \A i, j \in 1..Len(l) : i < j => Strip(l[i].url) # Strip(l[j].url)

\* the reference merge: first occurrence of every non-empty url, then the
\* first n of them
RECURSIVE FirstSeen(_, _)
FirstSeen(l, seen) ==
    IF l = <<>> THEN <<>>
    ELSE LET u == Strip(Head(l).url) IN
         IF u = <<>> \/ u \in seen
         THEN FirstSeen(Tail(l), seen)
         ELSE <<Head(l)>> \o FirstSeen(Tail(l), seen \cup {u})

Reference(l, n) ==
    LET d == FirstSeen(l, {}) IN SubSeq(d, 1, IF n < Len(d) THEN n ELSE Len(d))

Elapsed == now - start

(***************************************************************************)
(* C1: on a union-cache miss the returned list, and the payload written    *)
(* to the union file, hold no two results with the same trimmed url.       *)
(***************************************************************************)
C1_NoDuplicateUrls ==
    MissDone => /\ DistinctUrls(returned)
                /\ DistinctUrls(cache[UnionKey].results)

\* two results came back although the providers handed in a duplicate
C1_Witness == MissDone /\ Len(returned) = 2 /\ ~DistinctUrls(Got)

(***************************************************************************)
(* C2: when the union file of the request was written less than            *)
(* cache_ttl_seconds before the call, the call returns exactly the stored  *)
(* results and asks no provider anything (no is_available, no search).     *)
(***************************************************************************)
C2_FreshUnionIsReturned ==
    (pc # "idle" /\ unionAtStart.present /\ (start - unionAtStart.ts) < cache_ttl_seconds)
        => /\ pc = "done"
           /\ hit
           /\ returned = unionAtStart.results
           /\ \A p \in ProviderNames : ~Asked(p) /\ ~Searched(p)
           /\ written = {}

\* a non-empty list served from a union file written at an earlier time
C2_Witness ==
    /\ pc = "done" /\ hit /\ returned # <<>>
    /\ unionAtStart.ts < start
    /\ (start - unionAtStart.ts) < cache_ttl_seconds

(***************************************************************************)
(* C3: a file older than cache_ttl_seconds is never served, neither the    *)
(* union file nor a provider's file; and a call that finds the union file  *)
(* expired takes nothing from any cache file: every provider it uses is    *)
(* searched again.                                                         *)
(***************************************************************************)
C3_ExpiredNotServed ==
    /\ hit => /\ unionAtStart.present
              /\ (start - unionAtStart.ts) <= cache_ttl_seconds
    /\ \A p \in ProviderNames :
          log[p].st = "cached"
              => /\ cache[ProviderKey(p)].present
                 /\ (log[p].at - cache[ProviderKey(p)].ts) <= cache_ttl_seconds
    /\ (pc # "idle" /\ unionAtStart.present
            /\ (start - unionAtStart.ts) > cache_ttl_seconds)
          => /\ ~hit
             /\ \A p \in ProviderNames : log[p].st # "cached"

\* the union file had expired, and a provider whose own expired file is
\* still there was searched again
C3_Witness ==
    /\ pc = "done"
    /\ unionAtStart.present /\ (start - unionAtStart.ts) > cache_ttl_seconds
    /\ \E p \in ProviderNames :
          /\ log[p].st = "returned"
          /\ cache[ProviderKey(p)].present
          /\ cache[ProviderKey(p)].ts < start

(***************************************************************************)
(* C4.                                                                     *)
(***************************************************************************)
NoneAvailable ==
    \/ providers = <<>>
    \/ \A i \in 1..Len(providers) : log[providers[i]].avail = "no"

\* C4 as claimed: with no provider configured, or every configured provider
\* answering false to is_available(), search returns the empty list and
\* searches no provider.  (Stated for max_results >= 1, where a union file
\* holds no more than was asked for.)
C4_Original ==
    (pc = "done" /\ max_results >= 1 /\ (providers = <<>> \/ (~hit /\ NoneAvailable)))
        => /\ returned = <<>>
           /\ \A p \in ProviderNames : ~Searched(p)

\* C4 as amended: with no provider configured, or every configured provider
\* answering false to is_available(), a call that misses the union cache
\* returns the empty list and searches no provider; a call that hits the
\* union cache returns the stored list and asks no provider.
C4_NoProviderAvailable ==
    /\ (MissDone /\ NoneAvailable)
          => /\ returned = <<>>
             /\ \A p \in ProviderNames : ~Searched(p) /\ log[p].st # "cached"
    /\ (pc = "done" /\ hit)
          => /\ returned = unionAtStart.results
             /\ \A p \in ProviderNames : ~Asked(p) /\ ~Searched(p)

\* three providers, all of them asked and all unavailable
C4_Witness ==
    /\ MissDone /\ Len(providers) = 3
    /\ \A i \in 1..Len(providers) : log[providers[i]].avail = "no"
    /\ returned = <<>>

(***************************************************************************)
(* C5.                                                                     *)
(***************************************************************************)
Raised(i) == log[providers[i]].st = "raised"

RaisedContributesNothing(i) ==
    /\ ProviderKey(providers[i]) \notin written
    /\ \A k \in 1..Len(returned) : returned[k].provider # providers[i]

\* the scenario of the claim: three providers, the first two raise, the
\* third returns results with distinct non-empty urls, no more than asked
TwoFailOneAnswers ==
    /\ Len(providers) = 3
    /\ Raised(1) /\ Raised(2)
    /\ log[providers[3]].st = "returned"
    /\ log[providers[3]].res # <<>>
    /\ Reference(log[providers[3]].res, max_results) = log[providers[3]].res

ScenarioOutcome ==
    /\ returned = log[providers[3]].res
    /\ written = {ProviderKey(providers[3]), UnionKey}

\* C5 as claimed: a provider that raises contributes nothing and gets no
\* cache file, every later provider of the list is still consulted, and
\* search returns; with two failing providers followed by one that answers,
\* the answer is returned and only its file and the union file are written.
\* (Stated for the calls that end with fewer than max_results results, so
\* that no provider is left out because the list is full.)
C5_Original ==
    /\ pc \in {"idle", "loop", "calling", "break", "done", "hung"}
    /\ (pc = "done" /\ Len(returned) < max_results) =>
          /\ \A i \in 1..Len(providers) :
                Raised(i) => /\ RaisedContributesNothing(i)
                             /\ \A j \in (i + 1)..Len(providers) : Asked(providers[j])
          /\ TwoFailOneAnswers => ScenarioOutcome

\* C5 as amended: a provider that raises contributes nothing and gets no
\* cache file, and search returns; the loop goes on with the next provider
\* unless the time elapsed then exceeds hard_timeout_seconds, and a later
\* provider is left out only for that reason or because max_results was
\* reached; with two failing providers followed by one that answers, the
\* answer is returned and only its file and the union file are written.
C5_FailuresAreIsolated ==
    /\ pc \in {"idle", "loop", "calling", "break", "done", "hung"}
    /\ pc = "done" =>
          /\ \A i \in 1..Len(providers) :
                Raised(i) =>
                    /\ RaisedContributesNothing(i)
                    /\ (i < Len(providers) /\ ~Asked(providers[i + 1]))
                           => Elapsed > hard_timeout_seconds
                    /\ \A j \in (i + 1)..Len(providers) :
                           \/ Asked(providers[j])
                           \/ Elapsed > hard_timeout_seconds
                           \/ Len(returned) >= max_results
          /\ TwoFailOneAnswers => ScenarioOutcome

\* the scenario itself, with MaxResp results from the third provider
C5_Witness ==
    /\ pc = "done"
    /\ TwoFailOneAnswers
    /\ Len(returned) = MaxResp

(***************************************************************************)
(* C6: a search that has started always returns; a provider whose search   *)
(* never returns cannot keep it from returning.                            *)
(***************************************************************************)
C6_SearchAlwaysReturns == [](pc = "calling" => <>(pc = "done"))

(***************************************************************************)
(* C7: on a union-cache miss the returned list never has more than         *)
(* max_results elements, for every max_results >= 0.                       *)
(***************************************************************************)
C7_AtMostMaxResults == MissDone => Len(returned) <= max_results

(***************************************************************************)
(* C8: on a union-cache miss the returned list is the reference merge of   *)
(* the result lists taken, in provider order: empty and repeated urls      *)
(* deleted, first occurrence kept, cut to the first max_results.           *)
(***************************************************************************)
C8_EqualsReference == MissDone => returned = Reference(Got, max_results)

(***************************************************************************)
(* C9.                                                                     *)
(***************************************************************************)
HasFreshFile(p) ==
    /\ cache[ProviderKey(p)].present
    /\ cache[ProviderKey(p)].ts >= start
    /\ cache[ProviderKey(p)].results = log[p].res

\* C9 as claimed: after a call that missed the union cache, every provider
\* whose search was called and returned normally has a cache file written
\* by that call, also when it returned an empty list.
C9_Original ==
    MissDone => \A p \in ProviderNames : log[p].st = "returned" => HasFreshFile(p)

\* C9 as amended: after a call that missed the union cache, every provider
\* whose search was called and returned a non-empty list has a cache file
\* written by that call and holding that list; a provider that returned an
\* empty list gets no file written.
C9_FileForEveryAnswer ==
    MissDone => \A p \in ProviderNames :
        log[p].st = "returned" =>
            IF log[p].res # <<>>
            THEN HasFreshFile(p) /\ ProviderKey(p) \in written
            ELSE ProviderKey(p) \notin written

\* three providers searched in one call, each with a file of its own
C9_Witness ==
    /\ MissDone
    /\ Cardinality({p \in ProviderNames : log[p].st = "returned" /\ log[p].res # <<>>}) >= 2
    /\ \E p \in ProviderNames : log[p].st = "returned" /\ log[p].res = <<>>

(***************************************************************************)
(* C10: a call that missed the union cache ends by writing the union file  *)
(* with the list it returns as payload, on every way out of the loop and   *)
(* also when the list is empty; a call answered from the union file        *)
(* returns that payload and searches nothing.                              *)
(***************************************************************************)
C10_UnionFileIsWritten ==
    /\ MissDone => /\ cache[UnionKey].present
                   /\ cache[UnionKey].ts = now
                   /\ cache[UnionKey].results = returned
                   /\ UnionKey \in written
    /\ (pc = "done" /\ hit) => /\ returned = unionAtStart.results
                               /\ \A p \in ProviderNames : ~Searched(p)

\* the loop was left on the timeout with nothing merged and a provider to go
C10_Witness ==
    /\ MissDone
    /\ returned = <<>>
    /\ Elapsed > hard_timeout_seconds
    /\ idx <= Len(providers)

\* what is left of C7 and C8 once max_results = 0 is set aside: from
\* max_results = 1 on the list is capped and equals the reference merge
MergeIsReferenceFromOne ==
    (MissDone /\ max_results >= 1)
        => /\ Len(returned) <= max_results
           /\ returned = Reference(Got, max_results)

(***************************************************************************)
(* The cache file as text.  json.dumps writes a payload as a sequence of   *)
(* pieces, json.loads reads such a sequence back or fails.                 *)
(***************************************************************************)
NoItem == [title |-> 0, url |-> <<>>, provider |-> ""]
Piece(k) == [kind |-> k, ts |-> 0, item |-> NoItem]

\* json.dumps({"ts": ..., "results": [...]})
json_dumps(obj) ==
    <<Piece("{"), [kind |-> "ts", ts |-> obj.ts, item |-> NoItem]>>
    \o [i \in 1..Len(obj.results) |-> [kind |-> "item", ts |-> 0, item |-> obj.results[i]]]
    \o <<Piece("}")>>

\* json.loads accepts exactly one complete object
Loads(text) ==
    /\ Len(text) >= 3
    /\ text[1].kind = "{"
    /\ text[2].kind = "ts"
    /\ text[Len(text)].kind = "}"
    /\ \A i \in 3..(Len(text) - 1) : text[i].kind = "item"

\* lines 243-246: what exists() and json.loads(read_text()) make of the file
json_loads(f) ==
    IF ~f.exists THEN NoFile
    ELSE IF ~Loads(f.text) THEN [present |-> TRUE, loads |-> FALSE, ts |-> 0, results |-> <<>>]
    ELSE [present |-> TRUE, loads |-> TRUE, ts |-> f.text[2].ts,
          results |-> [i \in 1..(Len(f.text) - 3) |-> f.text[i + 2].item]]

\* write(data) on a descriptor opened at offset 0: data replaces the first
\* Len(data) pieces of the file, whatever lies beyond stays
Overwrite(text, data) ==
    [i \in 1..(IF Len(text) > Len(data) THEN Len(text) ELSE Len(data)) |->
        IF i <= Len(data) THEN data[i] ELSE text[i]]

TheKey == _cache_key("q", "union", MaxN, "news", "basic")

\* an entry of an earlier run, an entry whose items are not SearchResults,
\* a file that is not JSON, and no file
OldEntry == [ts |-> 1, results |-> <<ToDict(SearchResult(1, <<"a">>, "tavily"))>>]
ForeignEntry == [ts |-> 1, results |-> <<[title |-> 1, url |-> <<"a">>]>>]
InitialFiles ==
    { NoText,
      [exists |-> TRUE, text |-> json_dumps(OldEntry)],
      [exists |-> TRUE, text |-> json_dumps(ForeignEntry)],
      [exists |-> TRUE, text |-> <<Piece("{")>>] }

FileInit ==
    /\ SearchInit
    /\ LaterQuiet
    /\ ExtractQuiet
    /\ MergeQuiet
    /\ CycleQuiet
    /\ file \in InitialFiles
    /\ file0 = file
    /\ cpc = [p \in Threads |-> "start"]
    /\ payload = [p \in Threads |-> <<>>]
    /\ observed = [p \in Threads |-> NoText]
    /\ got = [p \in Threads |-> None]
    /\ order = <<>>

\* lines 281-283: the call reads the union file
CallReads(p) ==
    /\ cpc[p] = "start"
    /\ LET r == _read_cache([k \in {TheKey} |-> json_loads(file)], TheKey, now) IN
       /\ got' = [got EXCEPT ![p] = r]
       /\ cpc' = [cpc EXCEPT ![p] = IF r.exc THEN "raised"
                                     ELSE IF r.some THEN "returned" ELSE "providers"]
    /\ observed' = [observed EXCEPT ![p] = file]
    /\ UNCHANGED <<file, file0, payload, order, notFileVars>>

\* lines 285-318: the provider loop leaves merged, and _write_cache builds
\* the text of the payload (lines 260-264)
ProvidersAnswer(p, res) ==
    /\ cpc[p] = "providers"
    /\ payload' = [payload EXCEPT ![p] =
            json_dumps(_write_cache([k \in {TheKey} |-> NoFile], TheKey, res, now)[TheKey])]
    /\ cpc' = [cpc EXCEPT ![p] = "open"]
    /\ UNCHANGED <<file, file0, observed, got, order, notFileVars>>

\* line 265, write_text: open(p, "w") creates or truncates the file
WriteOpens(p) ==
    /\ cpc[p] = "open"
    /\ file' = [exists |-> TRUE, text |-> <<>>]
    /\ cpc' = [cpc EXCEPT ![p] = "write"]
    /\ UNCHANGED <<file0, payload, observed, got, order, notFileVars>>

\* line 265, write_text: the text is written and the file closed; line 319
WriteEnds(p) ==
    /\ cpc[p] = "write"
    /\ file' = [exists |-> TRUE, text |-> Overwrite(file.text, payload[p])]
    /\ order' = Append(order, p)
    /\ cpc' = [cpc EXCEPT ![p] = "returned"]
    /\ UNCHANGED <<file0, payload, observed, got, notFileVars>>

FileNext ==
    \/ \E p \in Threads : CallReads(p)
    \/ \E p \in Threads : \E res \in Responses("tavily") : ProvidersAnswer(p, res)
    \/ \E p \in Threads : WriteOpens(p)
    \/ \E p \in Threads : WriteEnds(p)

FileSpec == FileInit /\ [][FileNext]_vars

HasRead(p) == cpc[p] \notin {"off", "start"}
HasWritten(p) == \E i \in 1..Len(order) : order[i] = p

\* the file as p read it is not an entry _read_cache can use
Unreadable(f) == f.exists /\ ~Loads(f.text)
Misfit(f) ==
    f.exists /\ Loads(f.text) /\ \E i \in 3..(Len(f.text) - 1) : ~FitsSearchResult(f.text[i].item)

(***************************************************************************)
(* C11: cache writes are atomic replacements: a call reads the file as it  *)
(* was found or the complete payload of one writer, and when all calls     *)
(* have returned the file is the complete payload of the last writer.      *)
(***************************************************************************)
C11_AtomicReplace ==
    /\ \A p \in Threads :
          HasRead(p) =>
             \/ observed[p] = file0
             \/ \E q \in Threads : observed[p] = [exists |-> TRUE, text |-> payload[q]] /\ payload[q] # <<>>
    /\ ((\A p \in Threads : cpc[p] = "returned") /\ order # <<>>)
          => file = [exists |-> TRUE, text |-> payload[order[Len(order)]]]

(***************************************************************************)
(* C12: a cache file that json.loads rejects, or whose items do not fit    *)
(* SearchResult, is a miss: _read_cache returns None, the call goes on to  *)
(* the providers, and no exception leaves it.                              *)
(***************************************************************************)
C12_CorruptIsMiss ==
    \A p \in Threads :
        (HasRead(p) /\ (Unreadable(observed[p]) \/ Misfit(observed[p])))
            => /\ got[p] = None
               /\ cpc[p] \in {"providers", "open", "write", "returned"}
               /\ (cpc[p] = "returned" => HasWritten(p))

\* one call met a file of foreign items, the other a torn one, and both
\* went through the providers and returned
C12_Witness ==
    /\ \A p \in Threads : cpc[p] = "returned" /\ HasWritten(p)
    /\ \E p \in Threads : Misfit(observed[p])
    /\ \E p \in Threads : Unreadable(observed[p])

(***************************************************************************)
(* Generated text, as a sequence of lexemes; white space between lexemes   *)
(* is left out, every pattern and json.loads skipping it alike.            *)
(***************************************************************************)
MaxSegs == 2        \* a text is made of at most MaxSegs segments

\* the three backquotes that open and close a code block
FENCE == "fence"
KeyToks == {"core_thesis:", "judgment:", "needs_deep_research:", "research_plan:",
            "thesis_impact:", "a:", "b:", "market_views:", "stock_id:", "stock_name:"}
Scalars == {"1", "true", "false"}

\* json.loads as a scanner: the position after the JSON value that starts
\* at position i of t, or 0 when there is none
RECURSIVE ValueEnd(_, _)
RECURSIVE ElementsEnd(_, _)
RECURSIVE MembersEnd(_, _)
ValueEnd(t, i) ==
    IF i > Len(t) THEN 0
    ELSE IF t[i] \in Scalars THEN i + 1
    ELSE IF t[i] = "["
         THEN IF i + 1 <= Len(t) /\ t[i + 1] = "]" THEN i + 2 ELSE ElementsEnd(t, i + 1)
    ELSE IF t[i] = "{"
         THEN IF i + 1 <= Len(t) /\ t[i + 1] = "}" THEN i + 2 ELSE MembersEnd(t, i + 1)
    ELSE 0

ElementsEnd(t, i) ==
    LET j == ValueEnd(t, i) IN
    IF j = 0 \/ j > Len(t) THEN 0
    ELSE IF t[j] = "]" THEN j + 1
    ELSE IF t[j] = "," THEN ElementsEnd(t, j + 1)
    ELSE 0

MembersEnd(t, i) ==
    IF i > Len(t) \/ t[i] \notin KeyToks THEN 0
    ELSE LET j == ValueEnd(t, i + 1) IN
         IF j = 0 \/ j > Len(t) THEN 0
         ELSE IF t[j] = "}" THEN j + 1
         ELSE IF t[j] = "," THEN MembersEnd(t, j + 1)
         ELSE 0

\* json.loads(t) does not raise JSONDecodeError
Parses(t) == ValueEnd(t, 1) = Len(t) + 1

\* isinstance(json.loads(t), dict), for a t that parses
IsDict(t) == t # <<>> /\ t[1] = "{"

\* nesting depth of position i
Depth(t, i) ==
    Cardinality({k \in 1..(i - 1) : t[k] \in {"{", "["}})
    - Cardinality({k \in 1..(i - 1) : t[k] \in {"}", "]"}})

\* the keys of the dict json.loads(t)
TopKeys(t) == { t[i] : i \in {k \in 1..Len(t) : t[k] \in KeyToks /\ Depth(t, k) = 1} }

\* the value under key k of the dict json.loads(t), <<>> when k is not there
ValueOf(t, k) ==
    LET at == {i \in 1..Len(t) : t[i] = k /\ Depth(t, i) = 1} IN
    IF at = {} THEN <<>>
    ELSE LET i == CHOOSE x \in at : \A y \in at : y <= x
         IN SubSeq(t, i + 1, ValueEnd(t, i + 1) - 1)

\* bool(json.loads(t)): empty containers and false are falsy
Truthy(t) == t \notin {<<>>, <<"{", "}">>, <<"[", "]">>, <<"false">>}

\* first position >= i holding x, 0 when there is none
RECURSIVE Find(_, _, _)
Find(t, x, i) ==
    IF i > Len(t) THEN 0 ELSE IF t[i] = x THEN i ELSE Find(t, x, i + 1)

\* re.findall of a fence, an optional "json", the shortest content and a
\* fence (interview.py line 158), from position i on
RECURSIVE FencedBlocks(_, _)
FencedBlocks(t, i) ==
    LET a == Find(t, FENCE, i) IN
    IF a = 0 THEN <<>>
    ELSE LET c == IF a + 1 <= Len(t) /\ t[a + 1] = "json" THEN a + 2 ELSE a + 1
             b == Find(t, FENCE, c)
         IN IF b = 0 THEN <<>>
            ELSE <<SubSeq(t, c, b - 1)>> \o FencedBlocks(t, b + 1)

\* re.search of an opening brace, anything, a closing brace: from the first
\* opening brace of t to the last closing one
BraceMatch(t) ==
    LET a == Find(t, "{", 1)
        bs == {k \in 1..Len(t) : t[k] = "}"}
    IN IF a = 0 \/ bs = {} THEN <<>>
       ELSE LET b == CHOOSE x \in bs : \A y \in bs : y <= x
            IN IF a < b THEN SubSeq(t, a, b) ELSE <<>>

\* re.sub of line 196: a comma right before a closing brace or bracket goes
RECURSIVE StripTrailingCommas(_)
StripTrailingCommas(t) ==
    IF t = <<>> THEN <<>>
    ELSE IF Head(t) = "," /\ Len(t) >= 2 /\ t[2] \in {"}", "]"}
         THEN StripTrailingCommas(Tail(t))
         ELSE <<Head(t)>> \o StripTrailingCommas(Tail(t))

\* the last block of a list that satisfies a test, as reversed() finds it
LastOf(blocks, good) ==
    blocks[CHOOSE x \in good : \A y \in good : y <= x]

\* what an extractor returns: ok is FALSE for None; via is the strategy
\* that produced the object
Extracted(v, n) == [run |-> TRUE, ok |-> TRUE, val |-> v, via |-> n]
NoObject == [run |-> TRUE, ok |-> FALSE, val |-> <<>>, via |-> 0]

RequiredKeys == {"core_thesis:", "market_views:", "stock_name:"}
HasRequired(t) == TopKeys(t) \cap RequiredKeys # {}

(***************************************************************************)
(* InterviewManager._extract_json, interview.py lines 155-204.             *)
(***************************************************************************)
\* lines 198-199: what the cleanup pass accepts
CleanupAccepts(t) == Parses(t) /\ IsDict(t)

InterviewManager_extract_json(t) ==
    LET json_matches == FencedBlocks(t, 1)
        good1 == {i \in 1..Len(json_matches) :
                    /\ Parses(json_matches[i])
                    /\ IsDict(json_matches[i])
                    /\ HasRequired(json_matches[i])}
        brace_match == BraceMatch(t)
        good4 == {i \in 1..Len(json_matches) :
                    CleanupAccepts(StripTrailingCommas(json_matches[i]))}
    IN IF good1 # {} THEN Extracted(LastOf(json_matches, good1), 1)
       ELSE IF brace_match # <<>> /\ Parses(brace_match) /\ IsDict(brace_match)
               /\ HasRequired(brace_match)
            THEN Extracted(brace_match, 2)
       ELSE IF Parses(t) /\ IsDict(t) THEN Extracted(t, 3)
       ELSE IF good4 # {} THEN Extracted(StripTrailingCommas(LastOf(json_matches, good4)), 4)
       ELSE NoObject

(***************************************************************************)
(* InvestmentAssistant._extract_json, assistant.py lines 226-258.  The     *)
(* module assistant.py binds the names of its lines 4-14 and json is not   *)
(* one of them: every json.loads of the method raises NameError, which the *)
(* except Exception around it takes for a text that does not parse.        *)
(***************************************************************************)
AssistantGlobals ==
    {"os", "sys", "re", "Optional", "Tuple", "Dict", "List", "OpenAIClient", "Storage",
     "InterviewManager", "EnvironmentCollector", "ResearchEngine", "Display"}

JsonNameError == "json" \notin AssistantGlobals

\* lines 234-239, 244-249 and 252-257: json.loads(s) returns a dict
LoadsDict(s) == ~JsonNameError /\ Parses(s) /\ IsDict(s)

InvestmentAssistant_extract_json(t) ==
    LET matches == FencedBlocks(t, 1)
        good == {i \in 1..Len(matches) : LoadsDict(matches[i])}
        m == BraceMatch(t)
    IN IF t = <<>> THEN NoObject
       ELSE IF good # {} THEN Extracted(LastOf(matches, good), 1)
       ELSE IF m # <<>> /\ LoadsDict(m) THEN Extracted(m, 2)
       ELSE IF LoadsDict(t) THEN Extracted(t, 3)
       ELSE NoObject

(***************************************************************************)
(* EnvironmentCollector._extract_json, environment.py lines 390-417: the   *)
(* pair (result, error_message).  result is whatever json.loads returned,  *)
(* a dict or not.                                                          *)
(***************************************************************************)
\* re.search of line 410: the brace match, with "judgment" inside it
JudgmentMatch(t) ==
    LET m == BraceMatch(t) IN
    IF m # <<>> /\ \E i \in 2..(Len(m) - 1) : m[i] = "judgment:" THEN m ELSE <<>>

EnvironmentCollector_extract_json(t) ==
    LET blocks == FencedBlocks(t, 1)
        match == JudgmentMatch(t)
    IN IF blocks # <<>> /\ Parses(blocks[1])
       THEN [result |-> blocks[1], isNone |-> FALSE, error |-> ""]
       ELSE IF Parses(t) THEN [result |-> t, isNone |-> FALSE, error |-> ""]
       ELSE IF match # <<>> /\ Parses(match) THEN [result |-> match, isNone |-> FALSE, error |-> ""]
       ELSE [result |-> <<>>, isNone |-> TRUE, error |-> "cannot parse the response as JSON"]

(***************************************************************************)
(* EnvironmentCollector.assess_impact, environment.py lines 365-388.       *)
(* What it hands back: raises is TRUE when an exception leaves it;         *)
(* fallback is TRUE for the default structure of lines 371-383, whose      *)
(* parse_error is the error message of the extractor.                      *)
(***************************************************************************)
\* line 386, result["_raw_response"] = response: TypeError unless result
\* supports item assignment with a str key
SetRawResponseRaises(res) == ~IsDict(res)

assess_impact(t) ==
    LET ex == EnvironmentCollector_extract_json(t) IN
    IF ex.isNone \/ ~Truthy(ex.result)
    THEN [run |-> TRUE, raises |-> FALSE, fallback |-> TRUE,
          needs_deep_research |-> <<"true">>,
          research_plan |-> <<"{", "trigger_reason:manual", "}">>,
          has_raw_response |-> TRUE, parse_error |-> ex.error]
    ELSE IF SetRawResponseRaises(ex.result)
    THEN [run |-> TRUE, raises |-> TRUE, fallback |-> FALSE,
          needs_deep_research |-> <<>>, research_plan |-> <<>>,
          has_raw_response |-> FALSE, parse_error |-> ""]
    ELSE [run |-> TRUE, raises |-> FALSE, fallback |-> FALSE,
          needs_deep_research |-> ValueOf(ValueOf(ex.result, "judgment:"), "needs_deep_research:"),
          research_plan |-> ValueOf(ex.result, "research_plan:"),
          has_raw_response |-> FALSE, parse_error |-> ""]

(***************************************************************************)
(* ResearchEngine._extract_conclusion, research.py lines 474-512.          *)
(***************************************************************************)
\* last position of the longest run without a brace that starts at i
RECURSIVE RunEnd(_, _)
RunEnd(t, i) ==
    IF i > Len(t) \/ t[i] \in {"{", "}"} THEN i - 1 ELSE RunEnd(t, i + 1)

\* the tail of the pattern of line 491 from position i: any number of
\* flat brace pairs, each followed by a run without braces, then the
\* closing brace; its position, or 0
RECURSIVE GroupsEnd(_, _)
GroupsEnd(t, i) ==
    IF i > Len(t) THEN 0
    ELSE IF t[i] = "}" THEN i
    ELSE LET r == RunEnd(t, i + 1) IN
         IF r + 1 <= Len(t) /\ t[r + 1] = "}"
         THEN GroupsEnd(t, RunEnd(t, r + 2) + 1)
         ELSE 0

\* the pattern of line 491 tried at the opening brace at a
PatternEnd(t, a) ==
    LET r == RunEnd(t, a + 1) IN
    IF \E k \in (a + 1)..r : t[k] \in {"research_date:", "thesis_impact:"}
    THEN GroupsEnd(t, r + 1)
    ELSE 0

\* re.search(json_pattern, t), line 492: the leftmost match
ConclusionMatch(t) ==
    LET starts == {a \in 1..Len(t) : t[a] = "{" /\ PatternEnd(t, a) # 0} IN
    IF starts = {} THEN <<>>
    ELSE LET a == CHOOSE x \in starts : \A y \in starts : x <= y
         IN SubSeq(t, a, PatternEnd(t, a))

\* lines 483 and 496, result["_parse_success"] = True: TypeError unless
\* result supports item assignment with a str key
SetParseSuccessRaises(res) == ~IsDict(res)

Conclusion(v) ==
    [run |-> TRUE, raises |-> FALSE, parse_success |-> TRUE, parse_error |-> "",
     placeholder |-> FALSE, val |-> v]
Placeholder(e) ==
    [run |-> TRUE, raises |-> FALSE, parse_success |-> FALSE, parse_error |-> e,
     placeholder |-> TRUE, val |-> <<>>]
TypeError ==
    [run |-> TRUE, raises |-> TRUE, parse_success |-> FALSE, parse_error |-> "",
     placeholder |-> FALSE, val |-> <<>>]

_extract_conclusion(t) ==
    LET blocks == FencedBlocks(t, 1)
        match == ConclusionMatch(t)
    IN IF blocks # <<>> /\ Parses(blocks[1])
       THEN IF SetParseSuccessRaises(blocks[1]) THEN TypeError ELSE Conclusion(blocks[1])
       ELSE IF match # <<>> /\ Parses(match)
       THEN IF SetParseSuccessRaises(match) THEN TypeError ELSE Conclusion(match)
       ELSE IF match # <<>> THEN Placeholder("JSON error (pattern match)")
       ELSE IF blocks # <<>> THEN Placeholder("JSON error (code block)")
       ELSE Placeholder("no valid JSON structure found")

(***************************************************************************)
(* The texts the extractors are run on: up to MaxSegs segments, each a     *)
(* word of prose, a body, or a body in a code block with or without the    *)
(* language tag.                                                           *)
(***************************************************************************)
Bodies ==
    { <<"{", "a:", "1", "}">>,
      <<"{", "core_thesis:", "1", "}">>,
      <<"{", "a:", "1", ",", "b:", "[", "1", ",", "1", ",", "]", ",", "}">>,
      <<"{", "core_thesis:", "1", ",", "}">>,
      <<"{", "judgment:", "{", "needs_deep_research:", "true", "}", ",",
        "research_plan:", "{", "a:", "1", "}", "}">>,
      <<"{", "judgment:", "{", "needs_deep_research:", "true", "}", "}">>,
      <<"{", "judgment:", "{", "needs_deep_research:", "false", "}", "}">>,
      <<"{", "thesis_impact:", "1", "}">>,
      <<"[", "1", "]">>,
      <<"1">>,
      <<"{", "}">>,
      <<"{", "a:">> }

Fenced(b) == <<FENCE>> \o b \o <<FENCE>>
FencedJson(b) == <<FENCE, "json">> \o b \o <<FENCE>>

Segments ==
    {<<"w">>} \cup Bodies \cup {Fenced(b) : b \in Bodies} \cup {FencedJson(b) : b \in Bodies}

RECURSIVE Concat(_)
Concat(ss) == IF ss = <<>> THEN <<>> ELSE Head(ss) \o Concat(Tail(ss))

Texts == { Concat(ss) : ss \in SeqsUpTo(Segments, MaxSegs) }

ExtractInit ==
    /\ SearchInit
    /\ LaterQuiet
    /\ FileQuiet
    /\ MergeQuiet
    /\ CycleQuiet
    /\ response \in Texts
    /\ interviewOut = NotRun
    /\ assistantOut = NotRun
    /\ assessOut = NotRun
    /\ conclusionOut = NotRun

\* interview.py line 126 and the like: the reply of the model is searched
\* for a playbook
InterviewExtracts ==
    /\ ~interviewOut.run
    /\ interviewOut' = InterviewManager_extract_json(response)
    /\ UNCHANGED <<response, assistantOut, assessOut, conclusionOut, notExtractVars>>

\* assistant.py lines 270-330: the direct-edit flows
AssistantExtracts ==
    /\ ~assistantOut.run
    /\ assistantOut' = InvestmentAssistant_extract_json(response)
    /\ UNCHANGED <<response, interviewOut, assessOut, conclusionOut, notExtractVars>>

\* environment.py lines 365-388
AssessesImpact ==
    /\ ~assessOut.run
    /\ assessOut' = assess_impact(response)
    /\ UNCHANGED <<response, interviewOut, assistantOut, conclusionOut, notExtractVars>>

\* research.py lines 369-372
ExtractsConclusion ==
    /\ ~conclusionOut.run
    /\ conclusionOut' = _extract_conclusion(response)
    /\ UNCHANGED <<response, interviewOut, assistantOut, assessOut, notExtractVars>>

ExtractNext ==
    \/ InterviewExtracts
    \/ AssistantExtracts
    \/ AssessesImpact
    \/ ExtractsConclusion

ExtractSpec == ExtractInit /\ [][ExtractNext]_vars

(***************************************************************************)
(* Vocabulary of the extraction properties.                                *)
(***************************************************************************)
\* v is the content of a code block of the response, as it stands or after
\* the cleanup
FromFence(v) ==
    \E i \in 1..Len(FencedBlocks(response, 1)) :
        v \in {FencedBlocks(response, 1)[i], StripTrailingCommas(FencedBlocks(response, 1)[i])}

\* the only defect of b is trailing commas, and b is an object
OnlyTrailingCommas(b) ==
    /\ ~Parses(b)
    /\ Parses(StripTrailingCommas(b))
    /\ IsDict(StripTrailingCommas(b))

\* no part of the response is a JSON object
NoObjectIn(t) ==
    \A a, b \in 1..Len(t) : ~(a <= b /\ Parses(SubSeq(t, a, b)) /\ IsDict(SubSeq(t, a, b)))

(***************************************************************************)
(* C13: InterviewManager._extract_json never returns an object taken from  *)
(* a code block that has none of the required keys, whichever strategy     *)
(* produced it.                                                            *)
(***************************************************************************)
C13_RequiredKeysGuard ==
    (interviewOut.run /\ interviewOut.ok /\ FromFence(interviewOut.val))
        => HasRequired(interviewOut.val)

(***************************************************************************)
(* C14: a text whose only defect is trailing commas is extracted, inside   *)
(* a code block or not, by the cleanup pass over all three strategies.     *)
(***************************************************************************)
C14_CleanupAllStrategies ==
    (OnlyTrailingCommas(response) \/ (\E b \in Bodies : OnlyTrailingCommas(b) /\ response = Fenced(b)))
        => /\ interviewOut.run => interviewOut.ok
           /\ assistantOut.run => assistantOut.ok

(***************************************************************************)
(* C15: for a text without a parseable object every extractor returns its  *)
(* failure value and raises nothing, and the fallbacks built from it carry *)
(* the diagnostic.                                                         *)
(***************************************************************************)
C15_ExplicitFailure ==
    NoObjectIn(response)
        => /\ interviewOut.run => ~interviewOut.ok
           /\ assessOut.run =>
                /\ EnvironmentCollector_extract_json(response).isNone
                /\ EnvironmentCollector_extract_json(response).error # ""
                /\ ~assessOut.raises
                /\ assessOut.fallback /\ assessOut.has_raw_response /\ assessOut.parse_error # ""
           /\ conclusionOut.run =>
                /\ ~conclusionOut.raises
                /\ ~conclusionOut.parse_success
                /\ conclusionOut.parse_error # ""

(***************************************************************************)
(* C17: when no object can be extracted from the text of the assessment    *)
(* call, assess_impact raises nothing and returns an assessment with       *)
(* needs_deep_research true and the plan flagged for manual review.        *)
(***************************************************************************)
C17_UnparseableMeansManualReview ==
    (assessOut.run /\ NoObjectIn(response))
        => /\ ~assessOut.raises
           /\ assessOut.needs_deep_research = <<"true">>
           /\ assessOut.research_plan = <<"{", "trigger_reason:manual", "}">>

(***************************************************************************)
(* C20: for every text _extract_conclusion returns a map whose             *)
(* _parse_success is a boolean, with the placeholder conclusion and a      *)
(* non-empty _parse_error when it is false; it never raises.               *)
(***************************************************************************)
C20_ConclusionAlwaysReturned ==
    conclusionOut.run
        => /\ ~conclusionOut.raises
           /\ conclusionOut.parse_success \in BOOLEAN
           /\ ~conclusionOut.parse_success
                => (conclusionOut.placeholder /\ conclusionOut.parse_error # "")

(***************************************************************************)
(* InvestmentAssistant._deep_merge, assistant.py lines 260-268.            *)
(***************************************************************************)
MaxDepth == 2       \* dicts are nested at most MaxDepth deep

Leaves == {Scalar(1), List(<<1, 2>>), List(<<3>>)}

\* the dicts of depth at most d
RECURSIVE Dicts(_)
Dicts(d) ==
    IF d = 0 THEN {}
    ELSE { Dict(f) : f \in [DictKeys -> {Absent} \cup Leaves \cup Dicts(d - 1)] }

KeysOf(m) == {k \in DictKeys : m.at[k] # Absent}

\* patch.items() in the order of the keys
ItemOrder ==
    <<"a", "b", "core_thesis", "judgment", "market_views", "needs_deep_research",
      "research_plan", "stock_id", "stock_name", "summary", "thesis_impact", "created_at",
      "updated_at">>

\* the patch value always replaces
BothDicts_Never(v, cur) == FALSE

\* line 264: isinstance(v, dict) and isinstance(out.get(k), dict)
BothDicts(v, cur) == v.kind = "dict" /\ cur.kind = "dict"

RECURSIVE _deep_merge(_, _)
RECURSIVE MergeItems(_, _, _)
\* lines 263-267: the loop over the items of patch still to visit
MergeItems(o, p, ks) ==
    IF ks = <<>> THEN o
    ELSE LET k == Head(ks)
             v == IF k \in DOMAIN p.at THEN p.at[k] ELSE Absent
         IN IF v = Absent THEN MergeItems(o, p, Tail(ks))
            ELSE IF BothDicts(v, o.at[k])
                 THEN MergeItems(Dict([o.at EXCEPT ![k] = _deep_merge(o.at[k], v)]), p, Tail(ks))
                 ELSE MergeItems(Dict([o.at EXCEPT ![k] = v]), p, Tail(ks))

\* line 262 copies base, line 268 returns out
_deep_merge(b, p) == MergeItems(b, p, ItemOrder)

MergeInit ==
    /\ SearchInit
    /\ LaterQuiet
    /\ FileQuiet
    /\ ExtractQuiet
    /\ CycleQuiet
    /\ base \in Dicts(MaxDepth)
    /\ patch \in Dicts(MaxDepth)
    /\ out = Absent

\* assistant.py lines 281 and 327: a direct edit merges the patch
DeepMerges ==
    /\ out = Absent
    /\ out' = _deep_merge(base, patch)
    /\ UNCHANGED <<base, patch, notMergeVars>>

MergeNext == DeepMerges

MergeSpec == MergeInit /\ [][MergeNext]_vars

\* the reference deep merge, key by key
RECURSIVE Reference_merge(_, _)
Reference_merge(b, p) ==
    Dict([k \in DictKeys |->
            IF p.at[k] = Absent THEN b.at[k]
            ELSE IF p.at[k].kind = "dict" /\ b.at[k].kind = "dict"
                 THEN Reference_merge(b.at[k], p.at[k])
                 ELSE p.at[k]])

(***************************************************************************)
(* C16: _deep_merge(base, patch) is the reference deep merge: the keys of  *)
(* the result are those of base and patch together, a key of base that     *)
(* patch lacks keeps its value, a key of patch holds the merge of the two   *)
(* values when both are dicts and the patch value as it stands otherwise.   *)
(***************************************************************************)
C16_DeepMergeIsReference ==
    out # Absent
        => /\ out = Reference_merge(base, patch)
           /\ KeysOf(out) = KeysOf(base) \cup KeysOf(patch)
           /\ \A k \in KeysOf(base) \ KeysOf(patch) : out.at[k] = base.at[k]
           /\ \A k \in KeysOf(patch) :
                IF patch.at[k].kind = "dict" /\ base.at[k].kind = "dict"
                THEN out.at[k] = Reference_merge(base.at[k], patch.at[k])
                ELSE out.at[k] = patch.at[k]

\* merge({a:{a:1}, b:[1,2]}, {a:{b:1}, b:[3]}) = {a:{a:1,b:1}, b:[3]}
C16_Witness ==
    /\ base = Dict([a |-> Dict([a |-> Scalar(1), b |-> Absent]), b |-> List(<<1, 2>>)])
    /\ patch = Dict([a |-> Dict([a |-> Absent, b |-> Scalar(1)]), b |-> List(<<3>>)])
    /\ out = Dict([a |-> Dict([a |-> Scalar(1), b |-> Scalar(1)]), b |-> List(<<3>>)])

(***************************************************************************)
(* The research cycle: InvestmentAssistant._start_environment_check with   *)
(* _execute_deep_research (assistant.py lines 490-603 and 677-740), and    *)
(* the routes of the web application (web/app.py lines 354-424, 567-596).  *)
(***************************************************************************)
MaxNews == 1        \* collect_news finds 0..MaxNews items

\* the names retrieval.py defines at module level, and those line 231 of
\* openai_client.py imports from it
RetrievalNames ==
    {"SearchResult", "SearchProvider", "TavilyProvider", "OpenClawWebSearchProvider",
     "SearchManager", "format_search_results_for_prompt"}
ImportedNames == {"SearchManager", "TavilyProvider", "BraveProvider"}

\* "from .retrieval import ...": ImportError when a name is not there
ImportRaises == ~(ImportedNames \subseteq RetrievalNames)

\* openai_client.py lines 200-291: the metadata item and n news items,
\* unless the import of line 231 raises
search_news_structured(n) ==
    IF ImportRaises THEN Raises ELSE Some([metadata |-> 1, news |-> n])

\* environment.py lines 155-199: collect_news returns a dict of two keys,
\* "news" and "search_metadata"; an exception of search_news_structured
\* passes through it
collect_news(n) ==
    LET raw_result == search_news_structured(n) IN
    IF raw_result.exc THEN NewsRaised ELSE NewsDict(raw_result.val.news)

\* "if auto_collected:" - a dict of two keys is never empty
NonEmpty(ac) == ac.kind = "dict" \/ ac.n > 0

\* "for item in auto_collected: item.get(...)": the items of a list of
\* news are dicts, those of a dict are its keys, which are strings, and
\* str has no get
ItemGetRaises(ac) == NonEmpty(ac) /\ ac.kind = "dict"

\* json values read with bool(): a missing needs_deep_research is False
\* (assistant.py line 557, research.py line 531)
OrFalse(v) == IF v = <<>> THEN <<"false">> ELSE v

\* research.py lines 523-541 with storage.py lines 137-149: the record
\* goes to the front of the history
save_research_record(h, a, result) ==
    <<[needs_deep_research |-> OrFalse(a.needs_deep_research),
       has_result |-> result.run,
       parse_success |-> result.run /\ result.parse_success]>> \o h

\* the texts the assessment call and the research call may return: the
\* empty text and every single segment
Reports == { Concat(ss) : ss \in SeqsUpTo(Segments, 1) }

CycleInit ==
    /\ SearchInit
    /\ LaterQuiet
    /\ FileQuiet
    /\ ExtractQuiet
    /\ MergeQuiet
    /\ entry = "none"
    /\ stage = "idle"
    /\ playbook \in BOOLEAN
    /\ auto_collected = NewsList(0)
    /\ assessText = <<>>
    /\ assessment = NotRun
    /\ report = <<>>
    /\ history = <<>>

\* assistant.py lines 677-740: research, the decision of the user, the record
_execute_deep_research(a, text) ==
    LET result == _extract_conclusion(text) IN
    IF result.raises
    THEN stage' = "raised" /\ history' = history
    ELSE stage' = "recorded" /\ history' = save_research_record(history, a, result)

\* assistant.py lines 546-603, once the panel of line 544 has been shown
AfterPanel(ac, a, edit_choice, text) ==
    IF ItemGetRaises(ac) \/ a.raises
    THEN stage' = "raised" /\ history' = history
    ELSE IF Truthy(OrFalse(a.needs_deep_research))
    THEN IF Truthy(a.research_plan) /\ edit_choice # "cancel"
         THEN _execute_deep_research(a, text)
         ELSE stage' = "returned" /\ history' = history
    ELSE /\ stage' = "recorded"
         /\ history' = save_research_record(history, a, NotRun)

\* assistant.py lines 490-603: the whole handler, with what the user and
\* the model answer as inputs.  Line 541 calls collect_news and binds its
\* dict to auto_collected, and line 544 hands it to
\* Display.environment_panel (display.py lines 177-182), which iterates
\* over it.
_start_environment_check(n, text, edit_choice, rep) ==
    /\ stage = "idle"
    /\ entry' = "cli"
    /\ IF ~playbook
       THEN /\ stage' = "returned"
            /\ UNCHANGED <<auto_collected, assessText, assessment, report, history>>
       ELSE /\ auto_collected' = collect_news(n)
            /\ IF auto_collected' = NewsRaised \/ ItemGetRaises(auto_collected')
               THEN /\ stage' = "raised"
                    /\ UNCHANGED <<assessText, assessment, report, history>>
               ELSE /\ assessText' = text
                    /\ assessment' = assess_impact(text)
                    /\ report' = rep
                    /\ AfterPanel(auto_collected', assessment', edit_choice, rep)
    /\ UNCHANGED <<playbook, notCycleVars>>

\* web/app.py lines 354-404: the route hands the list under "news" on
api_collect_environment(n) ==
    /\ stage = "idle"
    /\ entry' = "web"
    /\ LET news_result == collect_news(n) IN
       IF news_result = NewsRaised
       THEN /\ auto_collected' = NewsRaised
            /\ stage' = "collect_raised"
       ELSE /\ auto_collected' = NewsList(news_result.n)
            /\ stage' = "collected"
    /\ UNCHANGED <<playbook, assessText, assessment, report, history, notCycleVars>>

\* web/app.py lines 406-424: the news are those of the request body
api_assess_impact(n, text) ==
    /\ entry # "cli"
    /\ stage \in {"idle", "collected", "collect_raised"}
    /\ entry' = "web"
    /\ auto_collected' = NewsList(n)
    /\ assessText' = text
    /\ assessment' = assess_impact(text)
    /\ stage' = IF assessment'.raises THEN "raised" ELSE "assessed"
    /\ UNCHANGED <<playbook, report, history, notCycleVars>>

\* the browser asks for research when the assessment calls for it
ClientStartsResearch(a) == Truthy(OrFalse(a.needs_deep_research))

\* web/app.py lines 567-596
api_execute_research(text) ==
    /\ stage = "assessed"
    /\ ClientStartsResearch(assessment)
    /\ report' = text
    /\ _execute_deep_research(assessment, text)
    /\ UNCHANGED <<entry, playbook, auto_collected, assessText, assessment, notCycleVars>>

CycleNext ==
    \/ \E n \in 0..MaxNews, text \in Reports, edit_choice \in {"confirm", "edit", "cancel"},
          rep \in Reports : _start_environment_check(n, text, edit_choice, rep)
    \/ \E n \in 0..MaxNews : api_collect_environment(n)
    \/ \E n \in 0..MaxNews, text \in Reports : api_assess_impact(n, text)
    \/ \E text \in Reports : api_execute_research(text)

CycleSpec == CycleInit /\ [][CycleNext]_vars

\* the handler of the cycle has returned or been left by an exception
CycleOver ==
    \/ entry = "cli" /\ stage # "idle"
    \/ entry = "web" /\ stage \in {"assessed", "recorded", "raised", "collect_raised"}

(***************************************************************************)
(* C18: a research cycle started from the command line for a subject that  *)
(* has a playbook ends Recorded, with exactly one record appended and no   *)
(* exception leaving the cycle.                                            *)
(***************************************************************************)
C18_CycleIsRecorded ==
    (entry = "cli" /\ playbook /\ CycleOver)
        => /\ stage = "recorded"
           /\ Len(history) = 1

(***************************************************************************)
(* C19: when the assessment says needs_deep_research = false, the          *)
(* environment check appends one record, without a research result and     *)
(* with needs_deep_research = false, and no research is executed.          *)
(***************************************************************************)
C19_NoResearchIsRecorded ==
    (CycleOver /\ assessment.run /\ ~assessment.raises
        /\ assessment.needs_deep_research = <<"false">>)
        => /\ Len(history) = 1
           /\ ~history[1].has_result
           /\ history[1].needs_deep_research = <<"false">>
           /\ report = <<>>

(***************************************************************************)
(* C24: once the time elapsed since the start of search exceeds            *)
(* hard_timeout_seconds no further provider is consulted: every provider   *)
(* the call came to (is_available, cache read or search) was reached       *)
(* within the budget; and what the call returns and writes to the union    *)
(* file is the list merged up to then.  Checked under Spec.                *)
(***************************************************************************)
C24_NoProviderAfterTimeout ==
    /\ \A p \in ProviderNames :
          (Asked(p) \/ Searched(p) \/ log[p].st = "cached")
              => (log[p].at - start) <= hard_timeout_seconds
    /\ (pc = "loop" /\ Elapsed > hard_timeout_seconds)
          => \A i \in idx..Len(providers) : log[providers[i]] = NoLog[providers[i]]
    /\ MissDone => /\ returned = merged
                   /\ cache[UnionKey].results = merged

\* the budget ran out with a provider left over, which was never asked, and
\* the call returned what it had
C24_Witness ==
    /\ MissDone
    /\ Elapsed > hard_timeout_seconds
    /\ returned # <<>>
    /\ \E i \in 1..Len(providers) : log[providers[i]] = NoLog[providers[i]]

(***************************************************************************)
(* Two calls of one SearchManager.  self.providers is set when the manager *)
(* is constructed (lines 226-230), so the second call runs over the        *)
(* providers of the first, and it is the first request made again;         *)
(* prevCall keeps what the first call saw.                                 *)
(***************************************************************************)
RetryStart(ps, n) ==
    /\ nCalls > 0 => (ps = providers /\ n = max_results)
    /\ search_starts(ps, n)
    /\ prevCall' = [made |-> nCalls > 0, providers |-> providers, max_results |-> max_results,
                    answered |-> {p \in ProviderNames :
                                     log[p].st = "returned" /\ log[p].res # <<>>},
                    failed |-> {p \in ProviderNames : log[p].st = "raised"}]
    /\ UNCHANGED notRetryVars

RetryNext ==
    \/ \E ps \in ProviderConfigs, n \in 0..MaxN : RetryStart(ps, n)
    \/ \E avail \in BOOLEAN : ConsultProvider(avail)
    \/ pc = "calling" /\ \E res \in Responses(providers[idx]), dt \in 0..MaxDelay :
            ProviderReturns(res, dt)
    \/ \E dt \in 0..MaxDelay : ProviderRaises(dt)
    \/ ProviderHangs
    \/ SearchReturns
    \/ Tick

RetrySpec == Init /\ [][RetryNext]_vars

\* the call is the identical search made again, and in the first one
\* provider a returned results, fewer than max_results, and provider b failed
RetriedAfter(a, b) ==
    /\ prevCall.made
    /\ prevCall.max_results = max_results
    /\ a \in prevCall.answered
    /\ b \in prevCall.failed
    /\ cache[ProviderKey(a)].present
    /\ Len(cache[ProviderKey(a)].results) < max_results

(***************************************************************************)
(* C25: after a search in which provider a returned results and provider b *)
(* failed, the identical search made again within the TTL calls b's search *)
(* again and takes a's results from a's own cache file, without calling    *)
(* a's search.  Checked under RetrySpec.                                   *)
(***************************************************************************)
C25_FailedProviderIsRetried ==
    \A a, b \in ProviderNames :
        (/\ pc = "done"
         /\ RetriedAfter(a, b)
         /\ (now - cache[ProviderKey(a)].ts) < cache_ttl_seconds)
            => /\ Searched(b)
               /\ log[a].st = "cached"

(***************************************************************************)
(* Storage (src/core/storage.py): the history of one subject.  A call is   *)
(* one action; the calls come one after the other, as from the command     *)
(* line.                                                                   *)
(***************************************************************************)
TicksPerSecond == 4 \* ticks of the clock in one second
MaxClock == 7       \* the clock runs over 0..MaxClock
MaxRecords == 3     \* add_research_record is called at most MaxRecords times
MaxLimit == 2       \* limit ranges over 0..MaxLimit

\* strftime of line 142 (%Y%m%d_%H%M%S): the time cut to the second
strftime(t) == t \div TicksPerSecond

\* datetime.isoformat(): the second, then the fraction of the second unless
\* it is zero
isoformat(t) ==
    IF t % TicksPerSecond = 0 THEN <<t \div TicksPerSecond>>
    ELSE <<t \div TicksPerSecond, t % TicksPerSecond>>

\* comparison of two isoformat strings, character by character: a string
\* that is a prefix of the other is the smaller one
StrLess(a, b) ==
    \/ a[1] < b[1]
    \/ a[1] = b[1] /\ Len(a) < Len(b)
    \/ a[1] = b[1] /\ Len(a) = 2 /\ Len(b) = 2 /\ a[2] < b[2]

\* what the callers put into a record (research.py lines 523-539)
Contents == {1, 2}
NoFeedback == [given |-> FALSE, feedback_date |-> <<>>]

Record(c) ==
    [id |-> 0, date |-> <<>>,
     environment_input |-> c, impact_assessment |-> c, research_plan |-> c,
     research_result |-> c,
     user_feedback |-> NoFeedback,
     is_milestone |-> "absent", milestone_updated_at |-> <<>>]

\* lines 75-80: the directory is made when it is not there
_get_stock_dir(d) == [d EXCEPT !.exists = TRUE]

\* lines 129-135
get_research_history(d) == IF d.history.present THEN d.history.records ELSE <<>>

\* json.dump of lines 147-149, 183-185 and 213-215
WriteHistory(d, records) ==
    [_get_stock_dir(d) EXCEPT !.history = [present |-> TRUE, records |-> records]]

\* the new record takes the place of the history
Insert0_Replace(records, record) == <<record>>

\* line 145
Insert0(records, record) == <<record>> \o records

\* record.get("is_milestone")
IsMilestone(r) == r.is_milestone = "True"

\* the first record with this id, 0 when there is none (lines 178-179, 199-200)
RECURSIVE FirstWithId(_, _, _)
FirstWithId(records, record_id, i) ==
    IF i > Len(records) THEN 0
    ELSE IF records[i].id = record_id THEN i
    ELSE FirstWithId(records, record_id, i + 1)

\* list.sort(key=date, reverse=True), which keeps records of one date in the
\* order they had
RECURSIVE InsertByDate(_, _)
InsertByDate(sorted, r) ==
    IF sorted = <<>> THEN <<r>>
    ELSE IF StrLess(Head(sorted).date, r.date) THEN <<r>> \o sorted
    ELSE <<Head(sorted)>> \o InsertByDate(Tail(sorted), r)

\* line 170
RECURSIVE SortNewestFirst(_)
SortNewestFirst(l) ==
    IF l = <<>> THEN <<>>
    ELSE InsertByDate(SortNewestFirst(SubSeq(l, 1, Len(l) - 1)), l[Len(l)])

Min(a, b) == IF a < b THEN a ELSE b

\* lines 153-172
RecentResearch(records, limit) ==
    LET milestones == SelectSeq(records, IsMilestone)
        regular == SelectSeq(records, LAMBDA r : ~IsMilestone(r))
        recent == SubSeq(regular, 1, Min(limit, Len(regular)))
        recent_ids == { recent[i].id : i \in 1..Len(recent) }
    IN SortNewestFirst(recent \o SelectSeq(milestones, LAMBDA m : m.id \notin recent_ids))

PyBool(b) == IF b THEN "True" ELSE "False"

\* lines 180-181 on record i at time t
Toggle(records, i, t) ==
    [records EXCEPT ![i] = [@ EXCEPT !.is_milestone = PyBool(~IsMilestone(records[i])),
                                     !.milestone_updated_at = isoformat(t)]]

StorageInit ==
    /\ SearchInit
    /\ FileQuiet
    /\ ExtractQuiet
    /\ MergeQuiet
    /\ CycleQuiet
    /\ RetryQuiet
    /\ RaceQuiet
    /\ EditQuiet
    /\ clock \in 0..1
    /\ disk \in {NoDir, [NoDir EXCEPT !.exists = TRUE, !.playbook = TRUE]}
    /\ appended = <<>>
    /\ last = NoCallYet

\* time passes between two calls
ClockTicks ==
    /\ clock < MaxClock
    /\ clock' = clock + 1
    /\ UNCHANGED <<disk, appended, last, notStorageVars>>

\* lines 90-99
save_stock_playbook ==
    /\ disk' = [_get_stock_dir(disk) EXCEPT !.playbook = TRUE]
    /\ last' = [op |-> "save_stock_playbook", arg |-> 0, ret |-> "None", out |-> <<>>,
                before |-> disk]
    /\ UNCHANGED <<clock, appended, notStorageVars>>

\* lines 82-88
get_stock_playbook ==
    /\ disk' = _get_stock_dir(disk)
    /\ last' = [op |-> "get_stock_playbook", arg |-> 0,
                ret |-> IF disk.playbook THEN "playbook" ELSE "None", out |-> <<>>,
                before |-> disk]
    /\ UNCHANGED <<clock, appended, notStorageVars>>

\* lines 129-135, called from the command line (assistant.py line 427)
_show_history ==
    /\ disk' = _get_stock_dir(disk)
    /\ last' = [op |-> "get_research_history", arg |-> 0, ret |-> "dict",
                out |-> get_research_history(disk), before |-> disk]
    /\ UNCHANGED <<clock, appended, notStorageVars>>

\* lines 137-149: the id is taken from the clock, then the date
add_research_record(c) ==
    /\ Len(get_research_history(disk)) < MaxRecords
    /\ clock + 2 <= MaxClock
    /\ LET record == [Record(c) EXCEPT !.id = strftime(clock),
                                       !.date = isoformat(clock + 1)]
       IN /\ disk' = WriteHistory(disk, Insert0(get_research_history(disk), record))
          /\ appended' = <<record>> \o appended
    /\ clock' = clock + 2
    /\ last' = [op |-> "add_research_record", arg |-> c, ret |-> "None", out |-> <<>>,
                before |-> disk]
    /\ UNCHANGED notStorageVars

\* lines 151-172
get_recent_research(limit) ==
    /\ disk' = _get_stock_dir(disk)
    /\ last' = [op |-> "get_recent_research", arg |-> limit, ret |-> "list",
                out |-> RecentResearch(get_research_history(disk), limit),
                before |-> disk]
    /\ UNCHANGED <<clock, appended, notStorageVars>>

\* lines 174-188
toggle_milestone(record_id) ==
    /\ clock < MaxClock
    /\ LET records == get_research_history(disk)
           i == FirstWithId(records, record_id, 1)
       IN IF i > 0
          THEN LET toggled == Toggle(records, i, clock) IN
               /\ disk' = WriteHistory(disk, toggled)
               /\ clock' = clock + 1
               /\ last' = [op |-> "toggle_milestone", arg |-> record_id,
                           ret |-> toggled[i].is_milestone, out |-> <<>>, before |-> disk]
          ELSE /\ disk' = _get_stock_dir(disk)
               /\ last' = [op |-> "toggle_milestone", arg |-> record_id, ret |-> "False",
                           out |-> <<>>, before |-> disk]
               /\ UNCHANGED clock
    /\ UNCHANGED <<appended, notStorageVars>>

\* lines 195-218
update_research_feedback(record_id) ==
    /\ clock < MaxClock
    /\ LET records == get_research_history(disk)
           i == FirstWithId(records, record_id, 1)
       IN IF i > 0
          THEN /\ disk' = WriteHistory(disk, [records EXCEPT
                              ![i] = [@ EXCEPT !.user_feedback =
                                         [given |-> TRUE, feedback_date |-> isoformat(clock)]]])
               /\ clock' = clock + 1
               /\ last' = [op |-> "update_research_feedback", arg |-> record_id,
                           ret |-> "True", out |-> <<>>, before |-> disk]
          ELSE /\ disk' = _get_stock_dir(disk)
               /\ last' = [op |-> "update_research_feedback", arg |-> record_id,
                           ret |-> "False", out |-> <<>>, before |-> disk]
               /\ UNCHANGED clock
    /\ UNCHANGED <<appended, notStorageVars>>

\* lines 119-125: _get_stock_dir makes the directory before exists() is asked
delete_stock ==
    /\ LET stock_dir == _get_stock_dir(disk) IN
       IF stock_dir.exists
       THEN /\ disk' = NoDir
            /\ appended' = <<>>
            /\ last' = [op |-> "delete_stock", arg |-> 0, ret |-> "True", out |-> <<>>,
                        before |-> disk]
       ELSE /\ disk' = stock_dir
            /\ last' = [op |-> "delete_stock", arg |-> 0, ret |-> "False", out |-> <<>>,
                        before |-> disk]
            /\ UNCHANGED appended
    /\ UNCHANGED <<clock, notStorageVars>>

RecordIds == 0..(MaxClock \div TicksPerSecond)

StorageNext ==
    \/ ClockTicks
    \/ save_stock_playbook
    \/ get_stock_playbook
    \/ _show_history
    \/ \E c \in Contents : add_research_record(c)
    \/ \E limit \in 0..MaxLimit : get_recent_research(limit)
    \/ \E record_id \in RecordIds : toggle_milestone(record_id)
    \/ \E record_id \in RecordIds : update_research_feedback(record_id)
    \/ delete_stock

StorageSpec == StorageInit /\ [][StorageNext]_vars

(***************************************************************************)
(* Vocabulary of the properties.                                           *)
(***************************************************************************)
\* the fields of a record that are written once
Immutable(r) ==
    [id |-> r.id, date |-> r.date, environment_input |-> r.environment_input,
     impact_assessment |-> r.impact_assessment, research_plan |-> r.research_plan,
     research_result |-> r.research_result]

Stored == get_research_history(disk)
StoredBefore == get_research_history(last.before)

NewestFirst(l) == \A i, j \in 1..Len(l) : i < j => ~StrLess(l[i].date, l[j].date)

Elems(l) == { l[i] : i \in 1..Len(l) }

\* the limit most recent records that are no milestone, and every milestone
Expected(records, limit) ==
    LET regular == SelectSeq(records, LAMBDA r : ~IsMilestone(r))
    IN Elems(SubSeq(regular, 1, Min(limit, Len(regular))))
         \cup Elems(SelectSeq(records, IsMilestone))

(***************************************************************************)
(* C21: the history is append-only.  After any sequence of                 *)
(* add_research_record, update_research_feedback and toggle_milestone      *)
(* every record appended since the subject was last deleted is still in    *)
(* history.json, in its place, with its id, date, environment_input,       *)
(* impact_assessment, research_plan and research_result as they were       *)
(* written.  Checked under StorageSpec.                                    *)
(***************************************************************************)
C21_AppendOnly ==
    /\ Len(Stored) = Len(appended)
    /\ \A i \in 1..Len(Stored) : Immutable(Stored[i]) = Immutable(appended[i])
    /\ (last.op \in {"toggle_milestone", "update_research_feedback"})
          => /\ Len(Stored) = Len(StoredBefore)
             /\ \A i \in 1..Len(Stored) : Immutable(Stored[i]) = Immutable(StoredBefore[i])

\* two records, one with feedback and one a milestone, both as appended
C21_Witness ==
    /\ Len(appended) >= 2
    /\ \E i \in 1..Len(Stored) : Stored[i].user_feedback.given
    /\ \E i \in 1..Len(Stored) : IsMilestone(Stored[i])
    /\ last.op \in {"toggle_milestone", "update_research_feedback"}

(***************************************************************************)
(* C23: records are read back newest-first.  get_research_history lists    *)
(* the records in reverse creation order, and get_recent_research(limit)   *)
(* returns the limit most recent records that are no milestone plus every  *)
(* milestone, each once, sorted by date with the newest first.  Checked    *)
(* under StorageSpec.                                                      *)
(***************************************************************************)
C23_NewestFirst ==
    /\ \A i, j \in 1..Len(Stored) : i < j => StrLess(Stored[j].date, Stored[i].date)
    /\ (last.op = "get_research_history") => last.out = StoredBefore
    /\ (last.op = "get_recent_research")
          => /\ NewestFirst(last.out)
             /\ Elems(last.out) = Expected(StoredBefore, last.arg)
             /\ Len(last.out) = Cardinality(Elems(last.out))

\* the part of C23 that is about the order alone
RecentIsSortedNewestFirst ==
    (last.op = "get_recent_research")
        => /\ NewestFirst(last.out)
           /\ Elems(last.out) \subseteq Expected(StoredBefore, last.arg)
           /\ Len(last.out) = Cardinality(Elems(last.out))

(***************************************************************************)
(* C28: no two records of a subject carry the same id, also when two       *)
(* records are added within one second of the clock.  Checked under        *)
(* StorageSpec.                                                            *)
(***************************************************************************)
C28_UniqueIds ==
    \A i, j \in 1..Len(Stored) : i < j => Stored[i].id # Stored[j].id

(***************************************************************************)
(* C29: toggle_milestone on the id of a record flips the is_milestone of   *)
(* that record and sets its milestone timestamp, leaves every other record *)
(* and the order as they were, and flips back when applied again; on an id *)
(* of no record it leaves the history as it was and returns something a    *)
(* successful toggle to false does not return.  Checked under StorageSpec. *)
(***************************************************************************)
C29_ToggleFrame ==
    (last.op = "toggle_milestone")
        => LET i == FirstWithId(StoredBefore, last.arg, 1) IN
           IF i > 0
           THEN /\ Len(Stored) = Len(StoredBefore)
                /\ \A j \in 1..Len(Stored) : j # i => Stored[j] = StoredBefore[j]
                /\ IsMilestone(Stored[i]) = ~IsMilestone(StoredBefore[i])
                /\ [Stored[i] EXCEPT !.is_milestone = "absent", !.milestone_updated_at = <<>>]
                     = [StoredBefore[i] EXCEPT !.is_milestone = "absent",
                                               !.milestone_updated_at = <<>>]
                /\ IsMilestone(Toggle(Stored, i, clock)[i]) = IsMilestone(StoredBefore[i])
                /\ last.ret = PyBool(IsMilestone(Stored[i]))
           ELSE /\ Stored = StoredBefore
                /\ disk.history = last.before.history
                /\ last.ret # PyBool(FALSE)

(***************************************************************************)
(* C30: delete_stock returns True exactly when the subject had stored data *)
(* before the call, and returns False and leaves the storage as it was     *)
(* when the subject was never stored; get_stock_playbook,                  *)
(* get_research_history and get_recent_research create nothing.  Checked   *)
(* under StorageSpec.                                                      *)
(***************************************************************************)
C30_DeleteReportsExistence ==
    /\ (last.op = "delete_stock")
          => /\ (last.ret = "True") <=> last.before.exists
             /\ ~last.before.exists => disk = last.before
    /\ (last.op \in {"get_stock_playbook", "get_research_history", "get_recent_research"})
          => disk = last.before

(***************************************************************************)
(* Requests for one subject that overlap.  The web server answers every    *)
(* request in a thread of its own (app.run, web/app.py line 840); nothing  *)
(* in storage.py or in the routes takes a lock.  add_research_record is    *)
(* split                                                                   *)
(* at its file operations: the read of line 139, the open of line 148      *)
(* (which empties the file) and the dump of line 149.                      *)
(***************************************************************************)
RaceInit ==
    /\ SearchInit
    /\ FileQuiet
    /\ ExtractQuiet
    /\ MergeQuiet
    /\ CycleQuiet
    /\ RetryQuiet
    /\ RaceQuiet
    /\ EditQuiet
    /\ clock = 0
    /\ disk = [NoDir EXCEPT !.exists = TRUE, !.playbook = TRUE]
    /\ appended = <<>>
    /\ last = NoCallYet

\* the request arrives and runs its research (execute_research)
RequestStarts(p) ==
    /\ rpc[p] = "idle"
    /\ rpc' = [rpc EXCEPT ![p] = "research"]
    /\ UNCHANGED <<rlocal, torn, storageVars, notRaceVars>>

\* lines 139-145; json.load raises on the file another request has emptied
AddReads(p, c) ==
    /\ rpc[p] = "research"
    /\ clock + 2 <= MaxClock
    /\ IF torn
       THEN /\ rpc' = [rpc EXCEPT ![p] = "raised"]
            /\ UNCHANGED <<rlocal, clock>>
       ELSE /\ rlocal' = [rlocal EXCEPT ![p] =
                  Insert0(get_research_history(disk),
                          [Record(c) EXCEPT !.id = strftime(clock),
                                            !.date = isoformat(clock + 1)])]
            /\ clock' = clock + 2
            /\ rpc' = [rpc EXCEPT ![p] = "read"]
    /\ UNCHANGED <<disk, appended, last, torn, notRaceVars>>

\* line 148: open(history_path, "w")
AddOpens(p) ==
    /\ rpc[p] = "read"
    /\ rpc' = [rpc EXCEPT ![p] = "open"]
    /\ torn' = TRUE
    /\ disk' = WriteHistory(disk, <<>>)
    /\ UNCHANGED <<rlocal, clock, appended, last, notRaceVars>>

\* line 149: json.dump and the close of the file.  The text goes to the
\* start of the file; when another request has written a longer text since
\* this one opened the file, the end of that text stays behind it
AddDumps(p) ==
    /\ rpc[p] = "open"
    /\ rpc' = [rpc EXCEPT ![p] = "done"]
    /\ IF torn \/ Len(rlocal[p]) >= Len(get_research_history(disk))
       THEN /\ disk' = WriteHistory(disk, rlocal[p])
            /\ torn' = FALSE
       ELSE /\ disk' = WriteHistory(disk, <<>>)
            /\ torn' = TRUE
    /\ appended' = <<Head(rlocal[p])>> \o appended
    /\ UNCHANGED <<rlocal, clock, last, notRaceVars>>

RaceNext ==
    \/ \E p \in Requests : RequestStarts(p)
    \/ \E p \in Requests, c \in Contents : AddReads(p, c)
    \/ \E p \in Requests : AddOpens(p)
    \/ \E p \in Requests : AddDumps(p)

RaceSpec == RaceInit /\ [][RaceNext]_vars

\* no request is writing history.json
AtRest == \A p \in Requests : rpc[p] # "open"

(***************************************************************************)
(* C22: research cycles of one subject are serialized, so that in no       *)
(* interleaving of record-producing requests for the subject is a record   *)
(* lost or duplicated: every record whose add_research_record has returned *)
(* is in history.json exactly once.  Checked under RaceSpec.               *)
(***************************************************************************)
C22_NoRecordLost ==
    AtRest => \A i \in 1..Len(appended) :
                 Cardinality({ j \in 1..Len(Stored) : Stored[j] = appended[i] }) = 1

(***************************************************************************)
(* C26: a failure of retrieval during environment collection degrades to   *)
(* an empty evidence list: collect_news returns (with an empty news list   *)
(* when nothing was found) and is never left by an exception, and the      *)
(* cycle goes on to the assessment.  Checked under CycleSpec.              *)
(***************************************************************************)
C26_CollectionDegrades ==
    /\ auto_collected # NewsRaised
    /\ stage # "collect_raised"
    /\ (entry = "cli" /\ playbook /\ CycleOver) => assessment.run

(***************************************************************************)
(* The direct edits of the command line, assistant.py lines 270-330, on    *)
(* the playbooks that Storage keeps, storage.py lines 52-99.  A playbook   *)
(* is a dict over JsonKeys; a stock has the id its name is turned into.    *)
(***************************************************************************)
MaxEdits == 3       \* handlers run one after the other, MaxEdits in all

JsonKeys == { ItemOrder[i] : i \in 1..Len(ItemOrder) }

NoKeys == [k \in JsonKeys |-> Absent]
EmptyObj == Dict(NoKeys)

\* the dict with the items of the record f
Obj(f) == Dict([k \in JsonKeys |-> IF k \in DOMAIN f THEN f[k] ELSE Absent])

\* the key that a key lexeme spells
KeyName(tok) ==
    CASE tok = "a:" -> "a"
      [] tok = "b:" -> "b"
      [] tok = "core_thesis:" -> "core_thesis"
      [] tok = "judgment:" -> "judgment"
      [] tok = "market_views:" -> "market_views"
      [] tok = "needs_deep_research:" -> "needs_deep_research"
      [] tok = "research_plan:" -> "research_plan"
      [] tok = "stock_id:" -> "stock_id"
      [] tok = "stock_name:" -> "stock_name"
      [] tok = "thesis_impact:" -> "thesis_impact"

\* a JSON number or boolean as Python compares it: True == 1, False == 0
ScalarValue(tok) == IF tok = "false" THEN Scalar(0) ELSE Scalar(1)

\* json.loads as a value: the value that starts at position i of a text
\* that parses; of two members with one key the later one stays
RECURSIVE ValueAt(_, _)
RECURSIVE ElementsAt(_, _)
RECURSIVE MembersAt(_, _, _)
ValueAt(t, i) ==
    IF t[i] \in Scalars THEN ScalarValue(t[i])
    ELSE IF t[i] = "["
         THEN IF t[i + 1] = "]" THEN List(<<>>) ELSE List(ElementsAt(t, i + 1))
    ELSE IF t[i + 1] = "}" THEN EmptyObj ELSE Dict(MembersAt(t, i + 1, NoKeys))

ElementsAt(t, i) ==
    LET j == ValueEnd(t, i) IN
    <<ValueAt(t, i)>> \o (IF t[j] = "," THEN ElementsAt(t, j + 1) ELSE <<>>)

MembersAt(t, i, acc) ==
    LET j == ValueEnd(t, i + 1)
        more == [acc EXCEPT ![KeyName(t[i])] = ValueAt(t, i + 1)]
    IN IF t[j] = "," THEN MembersAt(t, j + 1, more) ELSE more

ToValue(t) == ValueAt(t, 1)

\* not v, for a value or None
Falsy(v) ==
    \/ v = Absent
    \/ v.kind = "dict" /\ \A k \in DOMAIN v.at : v.at[k] = Absent
    \/ v.kind = "list" /\ v.items = <<>>
    \/ v.kind = "scalar" /\ v.n = 0
    \/ v.kind = "str" /\ v.s = <<>>

\* dict.setdefault(k, v)
setdefault(d, k, v) == IF d.at[k] = Absent THEN Dict([d.at EXCEPT ![k] = v]) ELSE d

\* storage.py lines 59-66, at time t
Storage_save_portfolio_playbook(pb, t) ==
    LET stamped == [pb.at EXCEPT !["updated_at"] = Str(isoformat(t))]
    IN IF stamped["created_at"] = Absent
       THEN Dict([stamped EXCEPT !["created_at"] = stamped["updated_at"]])
       ELSE Dict(stamped)

\* storage.py lines 90-99, at time t
Storage_save_stock_playbook(id, pb, t) ==
    LET named == [pb.at EXCEPT !["stock_id"] = Str(id)]
        stamped == [named EXCEPT !["updated_at"] = Str(isoformat(t))]
    IN IF stamped["created_at"] = Absent
       THEN Dict([stamped EXCEPT !["created_at"] = stamped["updated_at"]])
       ELSE Dict(stamped)

\* Display.playbook_panel, display.py lines 61-148, raises: the section it
\* reads first is there and is not a dict (AttributeError at lines 70 and
\* 117), or updated_at cannot be sliced (TypeError at lines 110 and 146)
PanelRaises(pb, is_portfolio) ==
    LET section == IF is_portfolio THEN pb.at["market_views"]
                   ELSE pb.at["core_thesis"]
        updated_at == pb.at["updated_at"]
    IN \/ section # Absent /\ section.kind # "dict"
       \/ updated_at # Absent /\ updated_at.kind \notin {"str", "list"}

\* assistant.py lines 277 and 323: not data, for the result of _extract_json
NotData(x) == ~x.ok \/ ~Truthy(x.val)

\* assistant.py lines 296-305: the skeleton of a stock; the keys that hold
\* an empty string or an empty list are left out but for the summary
Skeleton(name) ==
    Obj([stock_name |-> Str(name), core_thesis |-> Obj([summary |-> Str(<<>>)])])

\* what the user pastes before END (lines 214-224)
Pastes ==
    { <<>>,
      <<"{", "a:", "1", "}">>,
      FencedJson(<<"{", "a:", "{", "b:", "1", "}", "}">>),
      <<"w", "{", "core_thesis:", "[", "1", "]", "}">>,
      <<"{", "core_thesis:", "{", "a:", "1", "}", "}">>,
      <<"{", "market_views:", "{", "a:", "1", "}", "}">>,
      <<"{", "stock_id:", "1", "}">>,
      <<"{", "}">>,
      <<"[", "1", "]">>,
      <<"{", "a:">>,
      <<"w">> }

\* the replies that close an interview
Summaries ==
    { FencedJson(<<"{", "core_thesis:", "{", "a:", "1", "}", "}">>),
      FencedJson(<<"{", "core_thesis:", "1", "}">>),
      FencedJson(<<"{", "market_views:", "{", "a:", "1", "}", "}">>),
      <<"w">> }

Ended(b, o) == [books |-> b, outcome |-> o]

\* lines 292-310, once no playbook was found
AddsStock(name, raw) ==
    LET stock_id == stock_id_of(name)
        x == InvestmentAssistant_extract_json(raw)
        pasted == IF NotData(x) THEN EmptyObj ELSE ToValue(x.val)
        data == IF Falsy(pasted) THEN Skeleton(name) ELSE pasted
    IN Ended([books EXCEPT !.stocks[stock_id] =
                 Storage_save_stock_playbook(stock_id, setdefault(data, "stock_name", Str(name)),
                                             etime)],
             "added")

\* lines 319-330, once a playbook was found
EditsStock(name, raw) ==
    LET stock_id == stock_id_of(name)
        current == books.stocks[stock_id]
        patch_in == InvestmentAssistant_extract_json(raw)
        merged_pb == _deep_merge(current, ToValue(patch_in.val))
        stock_name == IF Falsy(current.at["stock_name"]) THEN Str(name)
                      ELSE current.at["stock_name"]
    IN IF PanelRaises(current, FALSE) THEN Ended(books, "raised")
       ELSE IF NotData(patch_in) THEN Ended(books, "rejected")
       ELSE Ended([books EXCEPT !.stocks[stock_id] =
                      Storage_save_stock_playbook(stock_id,
                                                  setdefault(merged_pb, "stock_name", stock_name),
                                                  etime)],
                  "saved")

EditInit ==
    /\ SearchInit
    /\ FileQuiet
    /\ ExtractQuiet
    /\ MergeQuiet
    /\ CycleQuiet
    /\ RetryQuiet
    /\ StorageQuiet
    /\ RaceQuiet
    /\ EditQuiet

\* assistant.py lines 455-486: the reply holds a playbook and the user
\* confirms it; mode is the interview that is going on
_handle_interview_input(mode, name, reply) ==
    LET pb == InterviewManager_extract_json(reply)
        stock_id == stock_id_of(name)
    IN /\ etime < MaxEdits
       /\ ~NotData(pb)
       /\ etime' = etime + 1
       /\ edit' = [op |-> mode, name |-> name, raw |-> reply, before |-> books,
                   outcome |-> "saved"]
       /\ IF mode = "portfolio_interview"
          THEN /\ books' = [books EXCEPT !.portfolio =
                              Storage_save_portfolio_playbook(ToValue(pb.val), etime)]
               /\ dirs' = dirs
          ELSE /\ books' = [books EXCEPT !.stocks[stock_id] =
                              Storage_save_stock_playbook(stock_id, ToValue(pb.val), etime)]
               /\ dirs' = dirs \cup {stock_id_of(stock_id)}
       /\ UNCHANGED notEditVars

\* lines 270-283
_direct_edit_portfolio_playbook(raw) ==
    LET stored == books.portfolio
        current == IF Falsy(stored) THEN EmptyObj ELSE stored
        data == InvestmentAssistant_extract_json(raw)
        merged_pb == _deep_merge(current, ToValue(data.val))
        end == IF ~Falsy(current) /\ PanelRaises(current, TRUE) THEN Ended(books, "raised")
               ELSE IF NotData(data) THEN Ended(books, "rejected")
               ELSE Ended([books EXCEPT !.portfolio =
                              Storage_save_portfolio_playbook(merged_pb, etime)], "saved")
    IN /\ etime < MaxEdits
       /\ etime' = etime + 1
       /\ books' = end.books
       /\ edit' = [op |-> "_direct_edit_portfolio_playbook", name |-> <<>>, raw |-> raw,
                   before |-> books, outcome |-> end.outcome]
       /\ UNCHANGED <<dirs, notEditVars>>

\* lines 285-310: a stock that has a playbook is edited instead
_direct_add_stock_playbook(stock_name, raw) ==
    LET stock_id == stock_id_of(stock_name)
        end == IF ~Falsy(books.stocks[stock_id]) THEN EditsStock(stock_name, raw)
               ELSE AddsStock(stock_name, raw)
    IN /\ etime < MaxEdits
       /\ etime' = etime + 1
       /\ books' = end.books
       /\ dirs' = dirs \cup {stock_id_of(stock_id)}
       /\ edit' = [op |-> "_direct_add_stock_playbook", name |-> stock_name, raw |-> raw,
                   before |-> books, outcome |-> end.outcome]
       /\ UNCHANGED notEditVars

\* lines 312-330: a stock that has no playbook is added instead
_direct_edit_stock_playbook(stock_name, raw) ==
    LET stock_id == stock_id_of(stock_name)
        end == IF Falsy(books.stocks[stock_id]) THEN AddsStock(stock_name, raw)
               ELSE EditsStock(stock_name, raw)
    IN /\ etime < MaxEdits
       /\ etime' = etime + 1
       /\ books' = end.books
       /\ dirs' = dirs \cup {stock_id_of(stock_id)}
       /\ edit' = [op |-> "_direct_edit_stock_playbook", name |-> stock_name, raw |-> raw,
                   before |-> books, outcome |-> end.outcome]
       /\ UNCHANGED notEditVars

EditNext ==
    \/ \E mode \in {"portfolio_interview", "stock_interview"}, name \in StockNames,
          reply \in Summaries : _handle_interview_input(mode, name, reply)
    \/ \E raw \in Pastes : _direct_edit_portfolio_playbook(raw)
    \/ \E name \in StockNames, raw \in Pastes : _direct_add_stock_playbook(name, raw)
    \/ \E name \in StockNames, raw \in Pastes : _direct_edit_stock_playbook(name, raw)

EditSpec == EditInit /\ [][EditNext]_vars

(***************************************************************************)
(* Vocabulary of the direct-edit property.                                 *)
(***************************************************************************)
\* the playbook that the last handler worked on, in a store b
Subject(b) ==
    IF edit.op = "_direct_edit_portfolio_playbook" THEN b.portfolio
    ELSE b.stocks[stock_id_of(edit.name)]

\* the last handler was a direct edit of a playbook that existed, and the
\* user got to paste
PastedForExisting ==
    /\ edit.op \in {"_direct_edit_portfolio_playbook", "_direct_edit_stock_playbook"}
    /\ Subject(edit.before) # Absent
    /\ edit.outcome # "raised"

\* the pasted text is a JSON object, as it stands or in a code block
PastedObject ==
    IF Parses(edit.raw) /\ IsDict(edit.raw) THEN edit.raw
    ELSE IF \E b \in Bodies \cup {<<"{", "a:", "{", "b:", "1", "}", "}">>} :
               Parses(b) /\ IsDict(b) /\ edit.raw \in {Fenced(b), FencedJson(b)}
         THEN FencedBlocks(edit.raw, 1)[1]
    ELSE <<>>

\* equal but for the time stamps that Storage sets
SameButStamps(p, q) ==
    \A k \in JsonKeys \ {"updated_at", "created_at"} : p.at[k] = q.at[k]

(***************************************************************************)
(* C27: after a direct edit of an existing portfolio or stock playbook in  *)
(* which the user pasted a valid JSON object, the stored playbook is       *)
(* _deep_merge(playbook stored before, pasted object) but for the storage  *)
(* time stamps; when no object can be extracted from the pasted text, the  *)
(* edit saves nothing and the stored playbooks are unchanged.  Checked     *)
(* under EditSpec.                                                         *)
(***************************************************************************)
C27_DirectEditIsDeepMerge ==
    PastedForExisting
        => /\ PastedObject # <<>>
                => SameButStamps(Subject(books),
                                 _deep_merge(Subject(edit.before), ToValue(PastedObject)))
           /\ NoObjectIn(edit.raw) => (edit.outcome = "rejected" /\ books = edit.before)

====
